---- MODULE Spec2Model ----
(***************************************************************************)
(* Model of maya_batch_group_exporter: the export-group reconciler,        *)
(* DataManager (data_manager.py) on top of SetManager (set_manager.py),    *)
(* NameValidator (validators.py) and the Maya scene (maya_facade.py); the  *)
(* exporters (exporters/, exporter.py); and the tree widget                *)
(* (ui/widgets/tree_view.py).                                              *)
(*                                                                         *)
(* Strings are sequences of one-character strings, so that strip,          *)
(* sanitize, prefixing and the "_<counter>" suffix are computed character  *)
(* by character as the Python code computes them.                          *)
(***************************************************************************)
EXTENDS Integers, Sequences, FiniteSets, TLC

VARIABLES
    scene,          \* the Maya scene: object sets in cmds.ls enumeration order
    group_order,    \* DataManager.group_order
    export_groups,  \* DataManager.data["export_groups"]
    last,           \* the last call made and what it returned
    selection,      \* the Maya selection (cmds.ls(selection=True))
    dirs,           \* the directories that exist on disk
    export,         \* the export call made last, or in progress
    tree,           \* ExportTreeWidget: its items, search text and saved state
    window,         \* BatchExporterWindow: refresh timer, handlers in progress
    history,        \* what the tree showed when the filter was typed
    config          \* DataManager.data["fbx_settings"] and the JSON file

vars ==
    <<scene, group_order, export_groups, last, selection, dirs, export, tree,
      window, history, config>>

----------------------------------------------------------------------------
(* Bounds *)

\* largest number of object sets the scene holds
MaxSets == 2
\* largest number of ids on which group_order may lag behind the scene when
\* the scene is changed from outside once more
MaxStale == 2
\* largest number of members the scene's sets hold together when one more is
\* added by the user
MaxMembers == 1
\* longest display name a duplicate may get, so that repeated "_copy" stops
MaxDisplayLen == 6
\* largest number of object sets the scene holds where only copies are made
MaxCopied == 3
\* largest number of edits followed from the handlers of the window
MaxEdits == 2
\* number of groups handed to one batch export
MaxBatch == 2

----------------------------------------------------------------------------
(* Strings *)

RECURSIVE Rep(_, _)
Rep(c, n) == IF n = 0 THEN <<>> ELSE <<c>> \o Rep(c, n - 1)

Digits == <<"0", "1", "2", "3", "4", "5", "6", "7", "8", "9">>

\* str(n) for n >= 0
RECURSIVE IntToStr(_)
IntToStr(n) ==
    IF n < 10 THEN <<Digits[n + 1]>>
    ELSE IntToStr(n \div 10) \o <<Digits[(n % 10) + 1]>>

StartsWith(s, p) == Len(s) >= Len(p) /\ SubSeq(s, 1, Len(p)) = p

\* "__" in s
HasDoubleUnderscore(s) ==
    \E i \in 1..(Len(s) - 1) : s[i] = "_" /\ s[i + 1] = "_"

\* s.replace("__", "_"): one left-to-right pass over non-overlapping matches
RECURSIVE ReplaceDoubleUnderscore(_)
ReplaceDoubleUnderscore(s) ==
    IF Len(s) < 2 THEN s
    ELSE IF s[1] = "_" /\ s[2] = "_"
         THEN <<"_">> \o ReplaceDoubleUnderscore(SubSeq(s, 3, Len(s)))
         ELSE <<s[1]>> \o ReplaceDoubleUnderscore(SubSeq(s, 2, Len(s)))

\* characters str.strip() removes (the ones the model's alphabet has)
Whitespace == {" ", "\t", "\n", "\r", "\f"}

RECURSIVE LStrip(_)
LStrip(s) ==
    IF s # <<>> /\ s[1] \in Whitespace THEN LStrip(Tail(s)) ELSE s

RECURSIVE RStrip(_)
RStrip(s) ==
    IF s # <<>> /\ s[Len(s)] \in Whitespace
    THEN RStrip(SubSeq(s, 1, Len(s) - 1)) ELSE s

Strip(s) == RStrip(LStrip(s))

----------------------------------------------------------------------------
(* constants.py, validators.py *)

\* SET_PREFIX, kept as one unit: the code only concatenates it, compares it
\* (startswith) and slices it off whole
SET_PREFIX == <<"batchExport_">>

MAX_NAME_LENGTH == 255

\* the characters of INVALID_CHARS_PATTERN: the reserved ones and, of the
\* control range \x00-\x1f, the ones TLA+ can write
ReservedChars == {"<", ">", ":", "\"", "/", "\\", "|", "?", "*"}
ControlChars == {"\t", "\n", "\r", "\f"}
INVALID_CHARS_PATTERN == ReservedChars \cup ControlChars

HasInvalidChar(s) == \E i \in 1..Len(s) : s[i] \in INVALID_CHARS_PATTERN

\* validate_group_name without its check for invalid characters
validate_group_name_NoCharCheck(name) ==
    IF name = <<>> THEN [ok |-> FALSE, name |-> name]
    ELSE LET stripped == Strip(name) IN
         IF stripped = <<>> THEN [ok |-> FALSE, name |-> stripped]
         ELSE IF Len(stripped) > MAX_NAME_LENGTH
              THEN [ok |-> FALSE, name |-> stripped]
         ELSE [ok |-> TRUE, name |-> stripped]

\* NameValidator.validate_group_name: ok = FALSE stands for ValidationError
validate_group_name(name) ==
    IF name = <<>> THEN [ok |-> FALSE, name |-> name]
    ELSE LET stripped == Strip(name) IN
         IF stripped = <<>> THEN [ok |-> FALSE, name |-> stripped]
         ELSE IF Len(stripped) > MAX_NAME_LENGTH
              THEN [ok |-> FALSE, name |-> stripped]
         ELSE IF HasInvalidChar(stripped)
              THEN [ok |-> FALSE, name |-> stripped]
         ELSE [ok |-> TRUE, name |-> stripped]

RECURSIVE CollapseUnderscores(_)
CollapseUnderscores(s) ==
    IF HasDoubleUnderscore(s)
    THEN CollapseUnderscores(ReplaceDoubleUnderscore(s))
    ELSE s

IsDigit(c) == \E i \in 1..Len(Digits) : Digits[i] = c

\* NameValidator.sanitize_for_maya_name
sanitize_for_maya_name(name) ==
    LET spaced == [i \in 1..Len(name) |->
                      IF name[i] = " " THEN "_" ELSE name[i]]
        cleaned == [i \in 1..Len(spaced) |->
                      IF spaced[i] \in INVALID_CHARS_PATTERN
                      THEN "_" ELSE spaced[i]]
        prefixed == IF cleaned # <<>> /\ IsDigit(cleaned[1])
                    THEN <<"_">> \o cleaned ELSE cleaned
    IN  CollapseUnderscores(prefixed)

----------------------------------------------------------------------------
(* The Maya scene (maya_facade.py): a sequence of object sets, each a      *)
(* record [name, members], in the order cmds.ls enumerates them.           *)

SceneNames(sc) == [i \in 1..Len(sc) |-> sc[i].name]

object_exists(sc, name) == \E i \in 1..Len(sc) : sc[i].name = name

IndexOfSet(sc, name) == CHOOSE i \in 1..Len(sc) : sc[i].name = name

InsertAt(sc, pos, e) ==
    SubSeq(sc, 1, pos - 1) \o <<e>> \o SubSeq(sc, pos, Len(sc))

RemoveAt(sc, pos) == SubSeq(sc, 1, pos - 1) \o SubSeq(sc, pos + 1, Len(sc))

\* MayaSceneAdapter.create_set(name, empty=True)
maya_create_set(sc, pos, name) ==
    InsertAt(sc, pos, [name |-> name, members |-> <<>>])

\* MayaSceneAdapter.delete_object
maya_delete_object(sc, name) == RemoveAt(sc, IndexOfSet(sc, name))

\* MayaSceneAdapter.rename_object: the node keeps its place and its members
maya_rename_object(sc, old, new) ==
    [sc EXCEPT ![IndexOfSet(sc, old)].name = new]

\* MayaSceneAdapter.get_set_members
maya_get_set_members(sc, name) ==
    IF object_exists(sc, name) THEN sc[IndexOfSet(sc, name)].members ELSE <<>>

InSeq(s, x) == \E i \in 1..Len(s) : s[i] = x

RECURSIVE AppendMissing(_, _)
AppendMissing(s, xs) ==
    IF xs = <<>> THEN s
    ELSE AppendMissing(IF InSeq(s, Head(xs)) THEN s ELSE Append(s, Head(xs)),
                       Tail(xs))

\* MayaSceneAdapter.add_to_set: a set holds an object once
maya_add_to_set(sc, objects, name) ==
    IF objects # <<>> /\ object_exists(sc, name)
    THEN [sc EXCEPT ![IndexOfSet(sc, name)].members =
              AppendMissing(@, objects)]
    ELSE sc

\* MayaSceneAdapter.remove_from_set
maya_remove_from_set(sc, objects, name) ==
    IF objects # <<>> /\ object_exists(sc, name)
    THEN [sc EXCEPT ![IndexOfSet(sc, name)].members =
              SelectSeq(@, LAMBDA m : ~InSeq(objects, m))]
    ELSE sc

----------------------------------------------------------------------------
(* SetManager (set_manager.py).  An operation that can raise returns a     *)
(* record whose ok = FALSE stands for the exception; fail is the outcome   *)
(* of the Maya command the operation issues (TRUE: cmds raised), and the   *)
(* record's raised tells that the command was issued and raised.           *)

\* SetManager.create_set_name
create_set_name(group_name) == SET_PREFIX \o sanitize_for_maya_name(group_name)

RECURSIVE FirstFreeCounter(_, _, _)
FirstFreeCounter(sc, set_name, counter) ==
    IF object_exists(sc, set_name \o <<"_">> \o IntToStr(counter))
    THEN FirstFreeCounter(sc, set_name, counter + 1)
    ELSE counter

\* get_unique_set_name with its counter starting at 2
get_unique_set_name_CounterFromTwo(sc, desired_name) ==
    LET set_name == create_set_name(desired_name) IN
    IF ~object_exists(sc, set_name) THEN set_name
    ELSE set_name \o <<"_">> \o IntToStr(FirstFreeCounter(sc, set_name, 2))

\* SetManager.get_unique_set_name
get_unique_set_name(sc, desired_name) ==
    LET set_name == create_set_name(desired_name) IN
    IF ~object_exists(sc, set_name) THEN set_name
    ELSE set_name \o <<"_">> \o IntToStr(FirstFreeCounter(sc, set_name, 1))

\* SetManager.create_set
create_set(sc, pos, group_name, fail) ==
    LET set_name == get_unique_set_name(sc, group_name) IN
    IF fail
    THEN [ok |-> FALSE, err |-> "maya", raised |-> TRUE, scene |-> sc,
          ret |-> set_name]
    ELSE [ok |-> TRUE, err |-> "", raised |-> FALSE,
          scene |-> maya_create_set(sc, pos, set_name), ret |-> set_name]

\* delete_set that logs the exception of cmds.delete and carries on
delete_set_SwallowsError(sc, set_name, fail) ==
    IF ~object_exists(sc, set_name)
    THEN [ok |-> FALSE, err |-> "not_found", raised |-> FALSE, scene |-> sc]
    ELSE IF fail
    THEN [ok |-> TRUE, err |-> "", raised |-> TRUE, scene |-> sc]
    ELSE [ok |-> TRUE, err |-> "", raised |-> FALSE,
          scene |-> maya_delete_object(sc, set_name)]

\* SetManager.delete_set
delete_set(sc, set_name, fail) ==
    IF ~object_exists(sc, set_name)
    THEN [ok |-> FALSE, err |-> "not_found", raised |-> FALSE, scene |-> sc]
    ELSE IF fail
    THEN [ok |-> FALSE, err |-> "maya", raised |-> TRUE, scene |-> sc]
    ELSE [ok |-> TRUE, err |-> "", raised |-> FALSE,
          scene |-> maya_delete_object(sc, set_name)]

\* a rename_set that returns without renaming anything
rename_set_KeepsName(sc, old_name, new_display_name, fail) ==
    [ok |-> TRUE, err |-> "", raised |-> FALSE, scene |-> sc,
     ret |-> old_name]

\* SetManager.rename_set
rename_set(sc, old_name, new_display_name, fail) ==
    IF ~object_exists(sc, old_name)
    THEN [ok |-> FALSE, err |-> "not_found", raised |-> FALSE, scene |-> sc,
          ret |-> old_name]
    ELSE LET new_set_name == get_unique_set_name(sc, new_display_name) IN
         IF new_set_name # old_name
         THEN IF fail
              THEN [ok |-> FALSE, err |-> "maya", raised |-> TRUE,
                    scene |-> sc, ret |-> old_name]
              ELSE [ok |-> TRUE, err |-> "", raised |-> FALSE,
                    scene |-> maya_rename_object(sc, old_name, new_set_name),
                    ret |-> new_set_name]
         ELSE [ok |-> TRUE, err |-> "", raised |-> FALSE, scene |-> sc,
               ret |-> old_name]

\* a member is [node, vtx]: vtx = TRUE is a "<node>.vtx[...]" component ref
StripVtx(m) == [m EXCEPT !.vtx = FALSE]

\* SetManager.get_set_objects (the caller has checked the set exists)
get_set_objects(sc, set_name) ==
    LET members == maya_get_set_members(sc, set_name) IN
    [i \in 1..Len(members) |-> StripVtx(members[i])]

\* SetManager.list_export_sets
list_export_sets(sc) ==
    SelectSeq(SceneNames(sc), LAMBDA s : StartsWith(s, SET_PREFIX))

\* duplicate_set that creates the new set and leaves it empty
duplicate_set_LeavesEmpty(sc, pos, set_name, new_display_name, failAt) ==
    IF ~object_exists(sc, set_name)
    THEN [ok |-> FALSE, err |-> "not_found", raised |-> FALSE, scene |-> sc,
          ret |-> set_name]
    ELSE LET new_set_name == get_unique_set_name(sc, new_display_name)
             created == maya_create_set(sc, pos, new_set_name)
         IN  IF failAt = "create_set"
             THEN [ok |-> FALSE, err |-> "maya", raised |-> TRUE,
                   scene |-> sc, ret |-> new_set_name]
             ELSE [ok |-> TRUE, err |-> "", raised |-> FALSE,
                   scene |-> created, ret |-> new_set_name]

\* SetManager.duplicate_set; failAt names the Maya command that raises
duplicate_set(sc, pos, set_name, new_display_name, failAt) ==
    IF ~object_exists(sc, set_name)
    THEN [ok |-> FALSE, err |-> "not_found", raised |-> FALSE, scene |-> sc,
          ret |-> set_name]
    ELSE LET objects == get_set_objects(sc, set_name)
             new_set_name == get_unique_set_name(sc, new_display_name)
             created == maya_create_set(sc, pos, new_set_name)
         IN  IF failAt = "create_set"
             THEN [ok |-> FALSE, err |-> "maya", raised |-> TRUE,
                   scene |-> sc, ret |-> new_set_name]
             ELSE IF objects # <<>> /\ failAt = "add_to_set"
             THEN [ok |-> FALSE, err |-> "maya", raised |-> TRUE,
                   scene |-> created, ret |-> new_set_name]
             ELSE [ok |-> TRUE, err |-> "", raised |-> FALSE,
                   scene |-> maya_add_to_set(created, objects, new_set_name),
                   ret |-> new_set_name]

----------------------------------------------------------------------------
(* DataManager.sync_from_scene (data_manager.py)                           *)

\* the keys of groups_dict, in insertion order
GroupsDictKeys(sc) ==
    AppendMissing(<<>>, SelectSeq(list_export_sets(sc),
                                  LAMBDA s : object_exists(sc, s)))

\* new sets put in front of group_order
SyncAppendNew_InFront(order, keys) ==
    SelectSeq(keys, LAMBDA s : ~InSeq(order, s)) \o order

\* "Update group_order to include any new sets"
SyncAppendNew(order, keys) == AppendMissing(order, keys)

\* deleted sets left in the order
SyncRemoveDeleted_KeepsAll(order, keys) == order

\* "Remove deleted sets from order"
SyncRemoveDeleted(order, keys) == SelectSeq(order, LAMBDA s : InSeq(keys, s))

\* group_order rebuilt from the scene's enumeration
SyncOrder_FromScene(order, sc) == GroupsDictKeys(sc)

\* every set of the scene appended, whether group_order has it or not
SyncOrder_AppendsAll(order, sc) ==
    LET keys == GroupsDictKeys(sc) IN
    SyncRemoveDeleted(order \o keys, keys)

\* group_order after sync_from_scene
SyncOrder(order, sc) ==
    LET keys == GroupsDictKeys(sc) IN
    SyncRemoveDeleted(SyncAppendNew(order, keys), keys)

MakeGroup(set_name) ==
    [name |-> SubSeq(set_name, Len(SET_PREFIX) + 1, Len(set_name)),
     set_name |-> set_name]

\* data["export_groups"] after sync_from_scene
SyncGroups(order, sc) ==
    LET keys == GroupsDictKeys(sc)
        new_order == SyncOrder(order, sc)
        kept == SelectSeq(new_order, LAMBDA s : InSeq(keys, s))
    IN  [i \in 1..Len(kept) |-> MakeGroup(kept[i])]

----------------------------------------------------------------------------
(* Inputs *)

\* the names the user types: valid ones, and ones at each limit of
\* validate_group_name
UserNames ==
    { <<>>,
      <<"a">>,
      <<" ">>,
      <<"*">>,
      <<"a", "\n">>,
      <<"a", "\t", "a">>,
      Rep("a", MAX_NAME_LENGTH + 1) }

\* update_export_group(index, name=None)
None == <<"None">>

\* sets other tools or the user create in the scene behind the tool's back:
\* one that carries the export prefix, one that does not
ExternalSetNames == { SET_PREFIX \o <<"a">>, <<"s">> }

\* what an externally created set holds
ExternalMembers == { <<>>, <<[node |-> "cube1", vtx |-> TRUE]>> }

\* the member lists handed to one add / remove call
RefLists == { <<>>, <<[node |-> "cube1", vtx |-> TRUE]>> }

\* the indexes a caller passes: the valid ones, one below and one above
Indexes == -1..Len(group_order)

\* the Maya command of duplicate_set that raises, if any
FailPoints == {"none", "create_set", "add_to_set"}

\* cmds.ls enumerates nodes in creation order: a new node comes last
Positions == {Len(scene) + 1}

----------------------------------------------------------------------------
(* State *)

\* the value of `last`: the call op returned ret (ok = FALSE: None or False;
\* err: the kind of exception it logged), synced: it ran sync_from_scene,
\* raised: a Maya command it issued raised
Call(op, ok, err, ret, synced, raised) ==
    [op |-> op, ok |-> ok, err |-> err, ret |-> ret, synced |-> synced,
     raised |-> raised]

Failed(op, err, raised) == Call(op, FALSE, err, -1, FALSE, raised)

\* no call in progress: the caller (the UI event loop) is free to make one
Idle == Call("idle", TRUE, "", -1, FALSE, FALSE)

Ready == last = Idle

\* no export call was made yet
NoExport ==
    [op |-> "none", pc |-> "returned", exporter |-> "", groups |-> <<>>,
     settings |-> <<>>, i |-> 0, results |-> <<>>, success_count |-> 0,
     entry |-> <<>>, calls |-> <<>>, no_makedirs |-> FALSE,
     dirs_before |-> {}, faulted |-> FALSE]

\* the exporters are not used: nothing is selected, exported or written
NoExporter ==
    /\ selection = <<>>
    /\ dirs = {}
    /\ export = NoExport

\* the tree widget before its first refresh: no item, no search text,
\* expanded_groups_state = None; op is the handler of the widget that ran
\* last ("refresh_preserving": a refresh that captured the state)
NoTree ==
    [items |-> <<>>, search_text |-> <<>>,
     expanded_groups_state |-> [is_none |-> TRUE, keys |-> {}],
     op |-> "none"]

\* the window once built: _setup_refresh_timer has started the timer, no
\* PausedTimerContext is entered (scopes lists the was_active of each one that
\* is), no handler is running
NoWindow == [timer |-> TRUE, scopes |-> <<>>, handlers |-> <<>>]

\* no filter typed yet, no group renamed yet (renamed is the place in the
\* scene of the set renamed last), no edit made from a handler of the window
NoHistory == [phase |-> "none", expanded |-> {}, renamed |-> 0, edits |-> 0]

\* the five keys of data["fbx_settings"]
SettingsFields ==
    {"up_axis", "triangulate", "convert_unit", "export_directory",
     "file_prefix"}

\* a JSON object (dict) with the members value
Dict(value) == [dict |-> TRUE, value |-> value, items |-> {}]

\* a JSON array of strings
StringList(items) == [dict |-> FALSE, value |-> <<>>, items |-> items]

\* DataManager._get_default_fbx_settings
get_default_fbx_settings ==
    Dict([up_axis |-> "Y", triangulate |-> FALSE, convert_unit |-> "cm",
          export_directory |-> "", file_prefix |-> ""])

\* no file at the path of the configuration
NoFile == [exists |-> FALSE]

\* the DataManager once built, before any configuration is saved
NoConfig == [fbx_settings |-> get_default_fbx_settings, file |-> NoFile]

\* a step that is none of the window's handlers
Aside == UNCHANGED <<window, history, config>>

\* a step of the DataManager leaves the exporters and the widgets alone
Quiet == UNCHANGED <<selection, dirs, export, tree>> /\ Aside

Init ==
    /\ scene = <<>>
    /\ group_order = <<>>
    /\ export_groups = <<>>
    /\ last = Idle
    /\ NoExporter
    /\ tree = NoTree
    /\ window = NoWindow
    /\ history = NoHistory
    /\ config = NoConfig

\* number of members in the whole scene
RECURSIVE TotalMembers(_)
TotalMembers(sc) ==
    IF sc = <<>> THEN 0 ELSE Len(Head(sc).members) + TotalMembers(Tail(sc))

\* number of ids on which group_order and the scene disagree
Staleness ==
    LET keys == GroupsDictKeys(scene) IN
    Cardinality({i \in 1..Len(group_order) : ~InSeq(keys, group_order[i])})
        + Cardinality({i \in 1..Len(keys) : ~InSeq(group_order, keys[i])})

\* the position counted from 1, as enumerate(..., 1) would give it
FoundIndex_OneBased(groups, set_name) ==
    IF \E i \in 1..Len(groups) : groups[i].set_name = set_name
    THEN CHOOSE i \in 1..Len(groups) :
             /\ groups[i].set_name = set_name
             /\ \A j \in 1..(i - 1) : groups[j].set_name # set_name
    ELSE Len(groups)

\* the index (0-based) add / duplicate return for set_name
FoundIndex(groups, set_name) ==
    IF \E i \in 1..Len(groups) : groups[i].set_name = set_name
    THEN (CHOOSE i \in 1..Len(groups) :
             /\ groups[i].set_name = set_name
             /\ \A j \in 1..(i - 1) : groups[j].set_name # set_name) - 1
    ELSE Len(groups) - 1

\* the assignments of sync_from_scene, run on group_order = order and scene sc
DoSync(order, sc) ==
    /\ group_order' = SyncOrder(order, sc)
    /\ export_groups' = SyncGroups(order, sc)

\* DataManager.sync_from_scene, called on its own (get_all_export_groups,
\* get_export_group, the refresh timer)
sync_from_scene ==
    /\ Ready
    /\ DoSync(group_order, scene)
    /\ scene' = scene
    /\ last' = Call("sync", TRUE, "", -1, TRUE, FALSE)

\* DataManager.add_export_group
add_export_group(name) ==
    Ready /\
    LET v == validate_group_name(name) IN
    IF ~v.ok
    THEN /\ last' = Failed("add", "validation", FALSE)
         /\ UNCHANGED <<scene, group_order, export_groups>>
    ELSE \E pos \in Positions, fail \in BOOLEAN :
         LET r == create_set(scene, pos, v.name, fail) IN
         IF ~r.ok
         THEN /\ last' = Failed("add", r.err, r.raised)
              /\ UNCHANGED <<scene, group_order, export_groups>>
         ELSE /\ Len(scene) < MaxSets
              /\ scene' = r.scene
              /\ DoSync(group_order, r.scene)
              /\ last' = Call("add", TRUE, "",
                              FoundIndex(export_groups', r.ret), TRUE,
                              r.raised)

\* remove_export_group that takes a set that is already gone for removed
remove_export_group_SilentOnAbsent(index) ==
    Ready /\
    IF 0 <= index /\ index < Len(export_groups)
    THEN \E fail \in BOOLEAN :
         LET set_name == export_groups[index + 1].set_name
             r == delete_set(scene, set_name, fail)
         IN
         IF ~r.ok /\ r.err # "not_found"
         THEN /\ last' = Failed("remove", r.err, r.raised)
              /\ UNCHANGED <<scene, group_order, export_groups>>
         ELSE /\ scene' = r.scene
              /\ DoSync(group_order, r.scene)
              /\ last' = Call("remove", TRUE, "", -1, TRUE, r.raised)
    ELSE /\ last' = Failed("remove", "index", FALSE)
         /\ UNCHANGED <<scene, group_order, export_groups>>

\* DataManager.remove_export_group
remove_export_group(index) ==
    Ready /\
    IF 0 <= index /\ index < Len(export_groups)
    THEN \E fail \in BOOLEAN :
         LET set_name == export_groups[index + 1].set_name
             r == delete_set(scene, set_name, fail)
         IN
         IF ~r.ok
         THEN /\ last' = Failed("remove", r.err, r.raised)
              /\ UNCHANGED <<scene, group_order, export_groups>>
         ELSE /\ scene' = r.scene
              /\ DoSync(group_order, r.scene)
              /\ last' = Call("remove", TRUE, "", -1, TRUE, r.raised)
    ELSE /\ last' = Failed("remove", "index", FALSE)
         /\ UNCHANGED <<scene, group_order, export_groups>>

\* DataManager.update_export_group
update_export_group(index, name) ==
    LET failed(err, raised) ==
            /\ last' = Failed("update", err, raised)
            /\ UNCHANGED <<scene, group_order, export_groups>>
    IN
    Ready /\
    IF 0 <= index /\ index < Len(export_groups)
    THEN LET set_name == export_groups[index + 1].set_name IN
         IF ~object_exists(scene, set_name) THEN failed("not_found", FALSE)
         ELSE IF name # None
         THEN LET v == validate_group_name(name) IN
              IF ~v.ok THEN failed("validation", FALSE)
              ELSE \E fail \in BOOLEAN :
                   LET r == rename_set(scene, set_name, v.name, fail) IN
                   IF ~r.ok THEN failed(r.err, r.raised)
                   ELSE /\ scene' = r.scene
                        /\ DoSync(group_order, r.scene)
                        /\ last' = Call("update", TRUE, "", -1, TRUE,
                                        r.raised)
         ELSE /\ scene' = scene
              /\ DoSync(group_order, scene)
              /\ last' = Call("update", TRUE, "", -1, TRUE, FALSE)
    ELSE failed("index", FALSE)

\* DataManager.duplicate_export_group
duplicate_export_group(index) ==
    LET failed(err, raised) ==
            /\ last' = Failed("duplicate", err, raised)
            /\ UNCHANGED <<group_order, export_groups>>
    IN
    Ready /\
    IF 0 <= index /\ index < Len(export_groups)
    THEN LET original == export_groups[index + 1]
             original_set == original.set_name
         IN  IF ~object_exists(scene, original_set)
             THEN failed("not_found", FALSE) /\ scene' = scene
             ELSE \E pos \in Positions, failAt \in FailPoints :
                  LET new_name == original.name \o <<"_", "c", "o", "p", "y">>
                      r == duplicate_set(scene, pos, original_set, new_name,
                                         failAt)
                  IN  IF ~r.ok
                      THEN failed(r.err, r.raised) /\ scene' = r.scene
                      ELSE /\ scene' = r.scene
                           /\ DoSync(group_order, r.scene)
                           /\ last' = Call("duplicate", TRUE, "",
                                FoundIndex(export_groups', r.ret), TRUE,
                                r.raised)
    ELSE failed("index", FALSE) /\ scene' = scene

\* the id of the copy of the group at index is no longer than the bound
CopyNameFits(index) ==
    (0 <= index /\ index < Len(export_groups))
    => Len(get_unique_set_name(scene, export_groups[index + 1].name
                                         \o <<"_", "c", "o", "p", "y">>))
          <= Len(SET_PREFIX) + MaxDisplayLen

\* the two assignments made one after the other, without a temporary
Swap_NoTemporary(s, i, j) == [s EXCEPT ![i] = s[j]]

\* group_order[i], group_order[j] = group_order[j], group_order[i]
Swap(s, i, j) == [s EXCEPT ![i] = s[j], ![j] = s[i]]

\* move_group_up that lets index 0 through: group_order[-1] is the last entry
move_group_up_WrapsAtZero(index) ==
    Ready /\
    IF index < 0 \/ index >= Len(group_order)
    THEN /\ last' = Failed("move_up", "index", FALSE)
         /\ UNCHANGED <<scene, group_order, export_groups>>
    ELSE /\ DoSync(Swap(group_order, index + 1,
                        IF index = 0 THEN Len(group_order) ELSE index), scene)
         /\ scene' = scene
         /\ last' = Call("move_up", TRUE, "", -1, TRUE, FALSE)

\* DataManager.move_group_up
move_group_up(index) ==
    Ready /\
    IF index <= 0 \/ index >= Len(group_order)
    THEN /\ last' = Failed("move_up", "index", FALSE)
         /\ UNCHANGED <<scene, group_order, export_groups>>
    ELSE /\ DoSync(Swap(group_order, index + 1, index), scene)
         /\ scene' = scene
         /\ last' = Call("move_up", TRUE, "", -1, TRUE, FALSE)

\* DataManager.move_group_down
move_group_down(index) ==
    Ready /\
    IF index < 0 \/ index >= Len(group_order) - 1
    THEN /\ last' = Failed("move_down", "index", FALSE)
         /\ UNCHANGED <<scene, group_order, export_groups>>
    ELSE /\ DoSync(Swap(group_order, index + 1, index + 2), scene)
         /\ scene' = scene
         /\ last' = Call("move_down", TRUE, "", -1, TRUE, FALSE)

\* the set names a caller can hold: the ones it was shown, the ones in the scene
KnownSetNames ==
    {group_order[i] : i \in 1..Len(group_order)}
        \cup {scene[i].name : i \in 1..Len(scene)}

\* DataManager.add_objects_to_set over SetManager.add_objects_to_set
add_objects_to_set(set_name, objects) ==
    LET done(ok, err, raised) ==
            last' = Call("add_objects", ok, err, -1, FALSE, raised)
    IN
    /\ Ready
    /\ UNCHANGED <<group_order, export_groups>>
    /\ IF ~object_exists(scene, set_name)
       THEN scene' = scene /\ done(FALSE, "not_found", FALSE)
       ELSE IF objects = <<>>
       THEN scene' = scene /\ done(TRUE, "", FALSE)
       ELSE \E fail \in BOOLEAN :
            IF fail
            THEN scene' = scene /\ done(FALSE, "maya", TRUE)
            ELSE /\ TotalMembers(scene) < MaxMembers
                 /\ scene' = maya_add_to_set(scene, objects, set_name)
                 /\ done(TRUE, "", FALSE)

\* DataManager.remove_objects_from_set over SetManager.remove_objects_from_set
remove_objects_from_set(set_name, objects) ==
    LET done(ok, err, raised) ==
            last' = Call("remove_objects", ok, err, -1, FALSE, raised)
    IN
    /\ Ready
    /\ UNCHANGED <<group_order, export_groups>>
    /\ IF ~object_exists(scene, set_name)
       THEN scene' = scene /\ done(FALSE, "not_found", FALSE)
       ELSE IF objects = <<>>
       THEN scene' = scene /\ done(TRUE, "", FALSE)
       ELSE \E fail \in BOOLEAN :
            IF fail
            THEN scene' = scene /\ done(FALSE, "maya", TRUE)
            ELSE /\ scene' = maya_remove_from_set(scene, objects, set_name)
                 /\ done(TRUE, "", FALSE)

\* DataManager.clear_set over SetManager.clear_set
clear_set(set_name) ==
    LET done(ok, err, raised) ==
            last' = Call("clear", ok, err, -1, FALSE, raised)
    IN
    /\ Ready
    /\ UNCHANGED <<group_order, export_groups>>
    /\ IF ~object_exists(scene, set_name)
       THEN scene' = scene /\ done(FALSE, "not_found", FALSE)
       ELSE LET members == maya_get_set_members(scene, set_name) IN
            \E fail \in BOOLEAN :
            IF members # <<>> /\ fail
            THEN scene' = scene /\ done(FALSE, "maya", TRUE)
            ELSE /\ scene' = maya_remove_from_set(scene, members, set_name)
                 /\ done(TRUE, "", FALSE)

\* the user or another tool creates an object set in Maya
ExternalCreate(name, pos, members) ==
    /\ Ready
    /\ Len(scene) < MaxSets
    /\ Staleness < MaxStale
    /\ ~object_exists(scene, name)
    /\ members = <<>> \/ TotalMembers(scene) < MaxMembers
    /\ scene' = maya_add_to_set(maya_create_set(scene, pos, name),
                                members, name)
    /\ last' = Call("external", TRUE, "", -1, FALSE, FALSE)
    /\ UNCHANGED <<group_order, export_groups>>

\* the user or another tool deletes an object set in Maya
ExternalDelete(i) ==
    /\ Ready
    /\ Staleness < MaxStale
    /\ scene' = RemoveAt(scene, i)
    /\ last' = Call("external", TRUE, "", -1, FALSE, FALSE)
    /\ UNCHANGED <<group_order, export_groups>>

\* the call returns to its caller, which is then free to make the next one
Return ==
    /\ ~Ready
    /\ last' = Idle
    /\ UNCHANGED <<scene, group_order, export_groups>>
    /\ Quiet

\* a call is made only when the previous one has returned
Next ==
    \/ Ready /\ Quiet /\ sync_from_scene
    \/ Ready /\ Quiet /\ \E name \in UserNames : add_export_group(name)
    \/ Ready /\ Quiet /\ \E index \in Indexes : remove_export_group(index)
    \/ Ready /\ Quiet /\ \E index \in Indexes, name \in UserNames \cup {None} :
                   update_export_group(index, name)
    \/ Ready /\ Quiet /\ Len(scene) < MaxSets
             /\ \E index \in Indexes :
                   CopyNameFits(index) /\ duplicate_export_group(index)
    \/ Ready /\ Quiet /\ \E index \in Indexes : move_group_up(index)
    \/ Ready /\ Quiet /\ \E index \in Indexes : move_group_down(index)
    \/ Ready /\ Quiet /\ \E set_name \in KnownSetNames, objects \in RefLists :
                   add_objects_to_set(set_name, objects)
    \/ Ready /\ Quiet /\ \E set_name \in KnownSetNames, objects \in RefLists :
                   remove_objects_from_set(set_name, objects)
    \/ Ready /\ Quiet /\ \E set_name \in KnownSetNames : clear_set(set_name)
    \/ Ready /\ Quiet /\ \E name \in ExternalSetNames, pos \in Positions,
                   members \in ExternalMembers :
                      ExternalCreate(name, pos, members)
    \/ Ready /\ Quiet /\ \E i \in 1..Len(scene) : ExternalDelete(i)
    \/ Return

Spec == Init /\ [][Next]_vars

----------------------------------------------------------------------------
(* The tool opened on a scene that already holds an export set, and used   *)
(* to make copies: the scene may then hold MaxCopied sets.                 *)

\* the scenes the tool is opened on
OpenedScenes ==
    { <<[name |-> SET_PREFIX \o <<"a">>, members |-> m]>> :
         m \in ExternalMembers }

\* DataManager.__init__ reads nothing from the scene
InitCopies ==
    /\ scene \in OpenedScenes
    /\ group_order = <<>>
    /\ export_groups = <<>>
    /\ last = Idle
    /\ NoExporter
    /\ tree = NoTree
    /\ window = NoWindow
    /\ history = NoHistory
    /\ config = NoConfig

NextCopies ==
    \/ Ready /\ Quiet /\ sync_from_scene
    \/ Ready /\ Quiet /\ Len(scene) < MaxCopied
             /\ \E index \in Indexes : duplicate_export_group(index)
    \/ Ready /\ Quiet /\ \E index \in Indexes : move_group_up(index)
    \/ Ready /\ Quiet /\ \E index \in Indexes : move_group_down(index)
    \/ Return

SpecCopies == InitCopies /\ [][NextCopies]_vars

----------------------------------------------------------------------------
(* sync_from_scene with a Maya query that raises.                          *)

\* the query that raises during one sync: cmds.ls in list_objects, or
\* cmds.objExists in object_exists
SyncFaults == {"list_objects", "object_exists"}

\* DataManager.sync_from_scene when the query named by fault raises:
\* list_export_sets catches what list_objects raises and returns [], and
\* the sync goes on with no set listed; what object_exists raises, for the
\* first set listed, is caught by sync_from_scene itself, before it has
\* assigned anything
sync_from_scene_faulted(fault) ==
    /\ Ready
    /\ scene' = scene
    /\ IF fault = "list_objects"
       THEN /\ DoSync(group_order, <<>>)
            /\ last' = Call("sync", TRUE, "maya", -1, TRUE, TRUE)
       ELSE /\ list_export_sets(scene) # <<>>
            /\ UNCHANGED <<group_order, export_groups>>
            /\ last' = Call("sync", TRUE, "maya", -1, FALSE, TRUE)

NextSyncFault ==
    \/ NextCopies
    \/ Quiet /\ \E fault \in SyncFaults : sync_from_scene_faulted(fault)

SpecSyncFault == InitCopies /\ [][NextSyncFault]_vars

----------------------------------------------------------------------------
(* The exporters: FBXSettings and FBXExporter (exporters/fbx_exporter.py), *)
(* ExportService (exporters/export_service.py) and the legacy FBXExporter  *)
(* (exporter.py).  faults is the set of the commands that raise when they  *)
(* are issued during one export_group call.                                *)

\* the paths that are regular files
Files == {"file"}

\* PathValidator.validate_directory(path, must_exist=False): TRUE unless it
\* raises ValidationError
validate_directory(path) == path # "" /\ path \notin Files

\* validate without its check of the export directory
validate_SkipsDirectory(settings) ==
    /\ settings.up_axis \in {"Y", "Z"}
    /\ settings.convert_unit \in {"cm", "m", "mm", "in", "ft"}

\* FBXSettings.validate: TRUE unless it raises ValidationError
validate(settings) ==
    /\ settings.up_axis \in {"Y", "Z"}
    /\ settings.convert_unit \in {"cm", "m", "mm", "in", "ft"}
    /\ settings.export_directory # ""
    /\ validate_directory(settings.export_directory)

\* the commands that can raise, by the place that issues them: os.makedirs,
\* the MEL commands of apply_settings, select(set_members), FBXExport, the
\* select that restores the selection after the export and the one that
\* restores it in the exception handler
ExportFaults ==
    {"makedirs", "apply_settings", "select", "FBXExport", "restore",
     "restore_on_error"}

\* the faults of one call: at most one command raises, and the select of the
\* exception handler may raise as well
FaultSets ==
    {F \in SUBSET ExportFaults : Cardinality(F \ {"restore_on_error"}) <= 1}

\* the entry of the call log for cmd, which raises when fault is in faults
Called(cmd, faults, fault) == [cmd |-> cmd, ok |-> fault \notin faults]

\* the entry of the call log for a command issued while the selection was
\* sel
At(call, sel) == [cmd |-> call.cmd, ok |-> call.ok, selection |-> sel]

\* FBXExporter.apply_settings
apply_settings(settings, faults) ==
    validate(settings) /\ "apply_settings" \notin faults

\* a select that leaves the selection as it is
maya_select_KeepsSelection(sel, objects, clear) == sel

\* MayaSceneAdapter.select
maya_select(sel, objects, clear) ==
    IF clear THEN <<>> ELSE IF objects # <<>> THEN objects ELSE sel

\* the restore that selects previous_selection and never clears
RestoreSelection_NeverClears(sel, previous_selection) ==
    maya_select(sel, previous_selection, FALSE)

\* "Restore selection": select(previous_selection) or select(clear=True)
RestoreSelection(sel, previous_selection) ==
    IF previous_selection # <<>>
    THEN maya_select(sel, previous_selection, FALSE)
    ELSE maya_select(sel, <<>>, TRUE)

\* what export_group hands back when it returns before it saves the selection
Refused(sel, ds) ==
    [success |-> FALSE, raised |-> FALSE, selection |-> sel, dirs |-> ds,
     calls |-> <<>>]

\* FBXExporter.export_group (exporters/fbx_exporter.py)
export_group(sc, sel, ds, group, settings, faults) ==
    LET set_name == group.set_name
        dir == settings.export_directory
    IN
    IF ~validate(settings) THEN Refused(sel, ds)
    ELSE IF ~object_exists(sc, set_name) THEN Refused(sel, ds)
    ELSE
    LET set_members == maya_get_set_members(sc, set_name) IN
    IF set_members = <<>> THEN Refused(sel, ds)
    ELSE IF dir \notin ds /\ "makedirs" \in faults THEN Refused(sel, ds)
    ELSE
    LET made == ds \cup {dir}
        previous_selection == sel
        members_selected == maya_select(sel, set_members, FALSE)
        applied == At(Called("apply_settings", faults, "apply_settings"), sel)
        selected == At(Called("select", faults, "select"), sel)
        exported == At(Called("FBXExport", faults, "FBXExport"),
                       members_selected)
        restored == At(Called("select", faults, "restore"), members_selected)
        handled == Called("select", faults, "restore_on_error")
        \* the except branch, entered with selection cur after calls
        except(cur, calls) ==
            [success |-> FALSE, raised |-> FALSE,
             selection |-> IF handled.ok
                           THEN RestoreSelection(cur, previous_selection)
                           ELSE cur,
             dirs |-> made, calls |-> calls \o <<At(handled, cur)>>]
    IN
    IF ~apply_settings(settings, faults) THEN except(sel, <<applied>>)
    ELSE IF ~selected.ok THEN except(sel, <<applied, selected>>)
    ELSE
    LET cur == members_selected IN
    IF ~exported.ok THEN except(cur, <<applied, selected, exported>>)
    ELSE IF ~restored.ok
    THEN except(cur, <<applied, selected, exported, restored>>)
    ELSE [success |-> TRUE, raised |-> FALSE,
          selection |-> RestoreSelection(cur, previous_selection),
          dirs |-> made,
          calls |-> <<applied, selected, exported, restored>>]

\* FBXExporter.export_group (exporter.py): raised = TRUE is an exception
\* that leaves export_group
legacy_export_group(sc, sel, ds, group, fbx_settings, faults) ==
    LET set_name == group.set_name
        export_directory == fbx_settings.export_directory
    IN
    IF export_directory = "" THEN Refused(sel, ds)
    ELSE IF ~object_exists(sc, set_name) THEN Refused(sel, ds)
    ELSE
    LET set_members == maya_get_set_members(sc, set_name) IN
    IF set_members = <<>> THEN Refused(sel, ds)
    ELSE IF /\ export_directory \notin ds \cup Files
            /\ "makedirs" \in faults
    THEN Refused(sel, ds)
    ELSE
    LET made == IF export_directory \in Files THEN ds
                ELSE ds \cup {export_directory}
        previous_selection == sel
        members_selected == maya_select(sel, set_members, FALSE)
        applied == At(Called("apply_settings", faults, "apply_settings"), sel)
        selected == At(Called("select", faults, "select"), sel)
        \* FBXExport cannot write below a path that is a file
        exported == [cmd |-> "FBXExport",
                     ok |-> /\ "FBXExport" \notin faults
                            /\ export_directory \notin Files,
                     selection |-> members_selected]
        restored == At(Called("select", faults, "restore"), members_selected)
        handled == Called("select", faults, "restore_on_error")
        \* the except branch: its select is not guarded
        except(cur, calls) ==
            [success |-> FALSE, raised |-> ~handled.ok,
             selection |-> IF handled.ok
                           THEN RestoreSelection(cur, previous_selection)
                           ELSE cur,
             dirs |-> made, calls |-> calls \o <<At(handled, cur)>>]
    IN
    IF ~selected.ok THEN except(sel, <<applied, selected>>)
    ELSE
    LET cur == members_selected IN
    IF ~exported.ok THEN except(cur, <<applied, selected, exported>>)
    ELSE IF ~restored.ok
    THEN except(cur, <<applied, selected, exported, restored>>)
    ELSE [success |-> TRUE, raised |-> FALSE,
          selection |-> RestoreSelection(cur, previous_selection),
          dirs |-> made,
          calls |-> <<applied, selected, exported, restored>>]

\* the exporter the window uses: the FBXExporter of exporters/ behind
\* ExportService (main_window.py), or the legacy one (ui.py)
Exporters == {"fbx", "legacy"}

ExportGroupOf(exporter, sc, sel, ds, group, settings, faults) ==
    IF exporter = "legacy"
    THEN legacy_export_group(sc, sel, ds, group, settings, faults)
    ELSE export_group(sc, sel, ds, group, settings, faults)

\* the settings the window hands over: valid ones with an existing
\* directory, and ones that differ from them by another or a wrong axis,
\* another or a wrong unit, no directory, a directory to create, a file's path
DefaultSettings ==
    [up_axis |-> "Y", convert_unit |-> "cm", export_directory |-> "out"]

SettingsInputs ==
    {[DefaultSettings EXCEPT !.up_axis = a] : a \in {"Z", "X"}}
        \cup {[DefaultSettings EXCEPT !.convert_unit = u] : u \in {"ft", "km"}}
        \cup {[DefaultSettings EXCEPT !.export_directory = d] :
                  d \in {"", "out", "new", "file"}}

\* what is selected in Maya when the tool is used
Selections == { <<>>, <<[node |-> "camera1", vtx |-> FALSE]>> }

\* the set of the i-th group of the batch and the object it may hold
GroupSetName(i) == SET_PREFIX \o <<"g">> \o IntToStr(i)

MemberOf(i) == [node |-> <<"cube">> \o IntToStr(i), vtx |-> FALSE]

\* the groups DataManager.get_all_export_groups handed to the window
BatchGroups == [i \in 1..MaxBatch |-> MakeGroup(GroupSetName(i))]

\* the scene when the export runs: each group's set was deleted meanwhile
\* ("absent"), is empty, or holds an object ("full")
SceneOf(status) ==
    LET present == SelectSeq([i \in 1..MaxBatch |-> i],
                             LAMBDA i : status[i] # "absent")
    IN  [k \in 1..Len(present) |->
            [name |-> GroupSetName(present[k]),
             members |-> IF status[present[k]] = "full"
                         THEN <<MemberOf(present[k])>> ELSE <<>>]]

ExportScenes ==
    {SceneOf(status) : status \in [1..MaxBatch -> {"absent", "empty", "full"}]}

InitExport ==
    /\ scene \in ExportScenes
    /\ group_order = [i \in 1..MaxBatch |-> GroupSetName(i)]
    /\ export_groups = BatchGroups
    /\ last = Idle
    /\ selection \in Selections
    /\ dirs = {"out"}
    /\ export = NoExport
    /\ tree = NoTree
    /\ window = NoWindow
    /\ history = NoHistory
    /\ config = NoConfig

\* a command that the call r issued raised: one of its log, or os.makedirs
Raised(r, ds, settings, faults) ==
    \/ \E k \in 1..Len(r.calls) : ~r.calls[k].ok
    \/ /\ "makedirs" \in faults
       /\ settings.export_directory \notin ds \cup Files \cup {""}
       /\ r.calls = <<>>
       /\ ~r.success

\* no batch is in its loop
NoBatch == export.pc # "loop"

\* the window exports the group at index: ExportService.export_single_group
\* (main_window.py) or the legacy exporter's export_group (ui.py), up to the
\* call of export_group
export_single_group(exporter, index, settings) ==
    /\ NoBatch
    /\ export' =
          [op |-> "export_single_group", pc |-> "loop", exporter |-> exporter,
           groups |-> <<export_groups[index + 1]>>, settings |-> settings,
           i |-> 0, results |-> <<>>, success_count |-> 0,
           entry |-> selection, calls |-> <<>>, no_makedirs |-> FALSE,
           dirs_before |-> dirs, faulted |-> FALSE]
    /\ UNCHANGED <<scene, group_order, export_groups, last, selection, dirs,
                   tree>>

\* export_all_groups up to its loop: results = [], success_count = 0
export_all_groups(exporter, groups, settings) ==
    /\ NoBatch
    /\ export' =
          [op |-> "export_all_groups", pc |-> "loop", exporter |-> exporter,
           groups |-> groups, settings |-> settings, i |-> 0,
           results |-> <<>>, success_count |-> 0, entry |-> selection,
           calls |-> <<>>, no_makedirs |-> FALSE, dirs_before |-> dirs,
           faulted |-> FALSE]
    /\ UNCHANGED <<scene, group_order, export_groups, last, selection, dirs,
                   tree>>

\* an iteration that ends the loop when the group's export failed
ExportNext_StopsOnFailure ==
    /\ export.pc = "loop"
    /\ export.i < Len(export.groups)
    /\ \E faults \in FaultSets :
          LET group == export.groups[export.i + 1]
              r == ExportGroupOf(export.exporter, scene, selection, dirs,
                                 group, export.settings, faults)
          IN  /\ selection' = r.selection
              /\ dirs' = r.dirs
              /\ export' =
                    [export EXCEPT
                       !.pc = IF r.raised THEN "raised"
                              ELSE IF ~r.success THEN "returned" ELSE "loop",
                       !.i = @ + 1,
                       !.results =
                           IF r.raised THEN @
                           ELSE Append(@, [group_name |-> group.name,
                                           success |-> r.success]),
                       !.success_count = IF r.success THEN @ + 1 ELSE @,
                       !.entry = selection, !.calls = r.calls,
                       !.no_makedirs = "makedirs" \in faults,
                       !.dirs_before = dirs,
                       !.faulted = @ \/ Raised(r, dirs, export.settings,
                                               faults)]
    /\ UNCHANGED <<scene, group_order, export_groups, last, tree>>

\* an iteration that counts the group whether its export succeeded or not
ExportNext_CountsAll ==
    /\ export.pc = "loop"
    /\ export.i < Len(export.groups)
    /\ \E faults \in FaultSets :
          LET group == export.groups[export.i + 1]
              r == ExportGroupOf(export.exporter, scene, selection, dirs,
                                 group, export.settings, faults)
          IN  /\ selection' = r.selection
              /\ dirs' = r.dirs
              /\ export' =
                    [export EXCEPT
                       !.pc = IF r.raised THEN "raised" ELSE "loop",
                       !.i = @ + 1,
                       !.results =
                           IF r.raised THEN @
                           ELSE Append(@, [group_name |-> group.name,
                                           success |-> r.success]),
                       !.success_count = @ + 1,
                       !.entry = selection, !.calls = r.calls,
                       !.no_makedirs = "makedirs" \in faults,
                       !.dirs_before = dirs,
                       !.faulted = @ \/ Raised(r, dirs, export.settings,
                                               faults)]
    /\ UNCHANGED <<scene, group_order, export_groups, last, tree>>

\* the call of export_group for the next group, the only one of
\* export_single_group or the one of this iteration of export_all_groups: an
\* exception that leaves export_group leaves the caller too
ExportNext ==
    /\ export.pc = "loop"
    /\ export.i < Len(export.groups)
    /\ \E faults \in FaultSets :
          LET group == export.groups[export.i + 1]
              r == ExportGroupOf(export.exporter, scene, selection, dirs,
                                 group, export.settings, faults)
          IN  /\ selection' = r.selection
              /\ dirs' = r.dirs
              /\ export' =
                    [export EXCEPT
                       !.pc = IF r.raised THEN "raised" ELSE "loop",
                       !.i = @ + 1,
                       !.results =
                           IF r.raised THEN @
                           ELSE Append(@, [group_name |-> group.name,
                                           success |-> r.success]),
                       !.success_count = IF r.success THEN @ + 1 ELSE @,
                       !.entry = selection, !.calls = r.calls,
                       !.no_makedirs = "makedirs" \in faults,
                       !.dirs_before = dirs,
                       !.faulted = @ \/ Raised(r, dirs, export.settings,
                                               faults)]
    /\ UNCHANGED <<scene, group_order, export_groups, last, tree>>

\* every group was handed to export_group: return the result, or
\* results and success_count
ExportReturn ==
    /\ export.pc = "loop"
    /\ export.i = Len(export.groups)
    /\ export' = [export EXCEPT !.pc = "returned"]
    /\ UNCHANGED <<scene, group_order, export_groups, last, selection, dirs,
                   tree>>

NextExport ==
    \/ Aside /\ \E exporter \in Exporters,
                    index \in 0..(Len(export_groups) - 1),
                    settings \in SettingsInputs :
                       export_single_group(exporter, index, settings)
    \/ Aside /\ \E exporter \in Exporters, settings \in SettingsInputs :
                    export_all_groups(exporter, export_groups, settings)
    \/ Aside /\ ExportNext
    \/ Aside /\ ExportReturn

SpecExport == InitExport /\ [][NextExport]_vars

----------------------------------------------------------------------------
(* ExportTreeWidget (ui/widgets/tree_view.py).  tree.items is the list of  *)
(* the top-level items; a group item is                                    *)
(* [label, set_name, expanded, selected, hidden, children] and a child     *)
(* item is [name, selected, hidden], its label being its name.             *)

UpperCase ==
    <<"A", "B", "C", "D", "E", "F", "G", "H", "I", "J", "K", "L", "M",
      "N", "O", "P", "Q", "R", "S", "T", "U", "V", "W", "X", "Y", "Z">>

LowerCase ==
    <<"a", "b", "c", "d", "e", "f", "g", "h", "i", "j", "k", "l", "m",
      "n", "o", "p", "q", "r", "s", "t", "u", "v", "w", "x", "y", "z">>

LowerChar(c) ==
    IF \E i \in 1..Len(UpperCase) : UpperCase[i] = c
    THEN LowerCase[CHOOSE i \in 1..Len(UpperCase) : UpperCase[i] = c]
    ELSE c

\* a lower() that leaves the case as it is
Lower_KeepsCase(s) == s

\* str.lower
Lower(s) == [i \in 1..Len(s) |-> LowerChar(s[i])]

\* t in s, for two strings
Contains(s, t) ==
    \E i \in 0..(Len(s) - Len(t)) : SubSeq(s, i + 1, i + Len(t)) = t

\* the texts typed in the search field
SearchTexts == { <<>>, <<"a">>, <<"B">> }

\* a filter that flips the hidden flag of what does not match, instead of
\* setting it
FilterItem_TogglesHidden(item, search_text) ==
    LET child_text_match(c) == Contains(Lower(c.name), search_text)
        group_match == Contains(Lower(item.label), search_text)
        child_match == \E j \in 1..Len(item.children) :
                          child_text_match(item.children[j])
    IN  [label |-> item.label, set_name |-> item.set_name,
         expanded |-> IF child_match /\ search_text # <<>>
                      THEN TRUE ELSE item.expanded,
         selected |-> item.selected,
         hidden |-> IF ~(search_text = <<>>) /\ ~group_match /\ ~child_match
                    THEN ~item.hidden ELSE FALSE,
         children |->
            [j \in 1..Len(item.children) |->
                [item.children[j] EXCEPT
                    !.hidden = IF ~(search_text = <<>>)
                                  /\ ~child_text_match(item.children[j])
                               THEN ~@ ELSE FALSE]]]

\* what _filter_tree_items does to one top-level item
FilterItem(item, search_text) ==
    LET child_text_match(c) == Contains(Lower(c.name), search_text)
        group_match == Contains(Lower(item.label), search_text)
        child_match == \E j \in 1..Len(item.children) :
                          child_text_match(item.children[j])
    IN  [label |-> item.label, set_name |-> item.set_name,
         expanded |-> IF child_match /\ search_text # <<>>
                      THEN TRUE ELSE item.expanded,
         selected |-> item.selected,
         hidden |-> ~(search_text = <<>>) /\ ~group_match /\ ~child_match,
         children |->
            [j \in 1..Len(item.children) |->
                [item.children[j] EXCEPT
                    !.hidden = ~(search_text = <<>>)
                               /\ ~child_text_match(item.children[j])]]]

\* ExportTreeWidget._filter_tree_items
filter_tree_items(items, search_text) ==
    [i \in 1..Len(items) |-> FilterItem(items[i], Lower(search_text))]

\* QTreeWidget.selectedItems leaves out the hidden items
SelectedGroupItems(items) ==
    {i \in 1..Len(items) : items[i].selected /\ ~items[i].hidden}

SelectedChildItems(items) ==
    {p \in {<<i, j>> : i \in 1..Len(items), j \in 1..MaxMembers} :
        /\ p[2] <= Len(items[p[1]].children)
        /\ items[p[1]].children[p[2]].selected
        /\ ~items[p[1]].children[p[2]].hidden}

\* the expanded_groups refresh collects
ExpandedGroups(items) ==
    {items[i].set_name : i \in {k \in 1..Len(items) : items[k].expanded}}

\* the selected_groups refresh collects
SelectedGroups(items) ==
    {items[i].set_name : i \in SelectedGroupItems(items)}

\* the selected_objects refresh collects
SelectedObjects(items) ==
    {<<items[p[1]].set_name, items[p[1]].children[p[2]].name>> :
        p \in SelectedChildItems(items)}

\* a test that takes an object for selected whatever its group
IsSelectedObject_InAnyGroup(selected_objects, set_name, obj) ==
    \E p \in selected_objects : p[2] = obj

\* (set_name, obj) in selected_objects
IsSelectedObject(selected_objects, set_name, obj) ==
    <<set_name, obj>> \in selected_objects

\* a clear() that leaves the items in the widget
tree_widget_clear_KeepsItems(items) == items

\* QTreeWidget.clear
tree_widget_clear(items) == <<>>

\* DataManager.get_set_objects: [] when SetManager.get_set_objects raises
SetObjects(sc, set_name) ==
    IF object_exists(sc, set_name) THEN get_set_objects(sc, set_name)
    ELSE <<>>

\* the "Build tree" loop of refresh and the selection it then restores:
\* one group item per group, one child item per object of its set; state is
\* expanded_groups_state, and the parent of a selected child is expanded
BuildTree(groups, sc, state, selected_groups, selected_objects) ==
    [i \in 1..Len(groups) |->
        LET set_name == groups[i].set_name
            objects == SetObjects(sc, set_name)
            children ==
                [j \in 1..Len(objects) |->
                    [name |-> objects[j].node,
                     selected |-> IsSelectedObject(selected_objects,
                                     set_name, objects[j].node),
                     hidden |-> FALSE]]
        IN  [label |-> groups[i].name, set_name |-> set_name,
             expanded |->
                \/ IF ~state.is_none THEN set_name \in state.keys ELSE TRUE
                \/ \E j \in 1..Len(children) : children[j].selected,
             selected |-> set_name \in selected_groups,
             hidden |-> FALSE, children |-> children]]

\* the set names refresh adds to expanded_groups_state: the parents of the
\* child items it selected
SelectedParents(items) ==
    {items[i].set_name :
        i \in {k \in 1..Len(items) :
                 \E j \in 1..Len(items[k].children) :
                    items[k].children[j].selected}}

\* ExportTreeWidget.refresh
Refreshed(preserve_selection) ==
    LET capture == preserve_selection /\ Len(tree.items) > 0
        saved == IF capture
                 THEN [is_none |-> FALSE, keys |-> ExpandedGroups(tree.items)]
                 ELSE tree.expanded_groups_state
        selected_groups ==
            IF capture THEN SelectedGroups(tree.items) ELSE {}
        selected_objects ==
            IF capture THEN SelectedObjects(tree.items) ELSE {}
        groups == SyncGroups(group_order, scene)
        built == tree_widget_clear(tree.items)
                 \o BuildTree(groups, scene, saved, selected_groups,
                              selected_objects)
    IN  /\ DoSync(group_order, scene)
        /\ tree' =
              [items |-> IF tree.search_text # <<>>
                         THEN filter_tree_items(built, tree.search_text)
                         ELSE built,
               search_text |-> tree.search_text,
               expanded_groups_state |->
                  IF saved.is_none THEN saved
                  ELSE [saved EXCEPT !.keys = @ \cup SelectedParents(built)],
               op |-> IF capture THEN "refresh_preserving" ELSE "refresh"]
        /\ UNCHANGED <<scene, selection, dirs, export>>

\* a refresh made when no call of the DataManager is in progress: by the
\* timer, by the refresh button
refresh(preserve_selection) ==
    /\ Ready
    /\ Refreshed(preserve_selection)
    /\ last' = last

\* the user edits the search field: textChanged runs _filter_tree_items
SearchTextChanged(text) ==
    /\ text # tree.search_text
    /\ tree' = [tree EXCEPT !.search_text = text,
                            !.items = filter_tree_items(@, text),
                            !.op = "filter"]
    /\ UNCHANGED <<scene, group_order, export_groups, last, selection,
                   dirs, export>>

\* the user expands or collapses a group item he sees
UserExpands(i) ==
    /\ ~tree.items[i].hidden
    /\ tree' = [tree EXCEPT !.items[i].expanded = ~@, !.op = "user"]
    /\ UNCHANGED <<scene, group_order, export_groups, last, selection,
                   dirs, export>>

\* the user adds an item he sees to the selection or takes it out of it
\* (ExtendedSelection): group item i when j = 0, else its j-th child
UserSelects(i, j) ==
    /\ ~tree.items[i].hidden
    /\ IF j = 0
       THEN tree' = [tree EXCEPT !.items[i].selected = ~@, !.op = "user"]
       ELSE /\ j <= Len(tree.items[i].children)
            /\ tree.items[i].expanded
            /\ ~tree.items[i].children[j].hidden
            /\ tree' = [tree EXCEPT !.items[i].children[j].selected = ~@,
                                    !.op = "user"]
    /\ UNCHANGED <<scene, group_order, export_groups, last, selection,
                   dirs, export>>

\* the scenes the widget is opened on: two export sets that hold the same
\* object, the first through a vertex component
TreeObject(vtx) == [node |-> <<"b">>, vtx |-> vtx]

TreeScenes ==
    { <<[name |-> SET_PREFIX \o <<"A">>, members |-> <<TreeObject(TRUE)>>],
        [name |-> SET_PREFIX \o <<"c">>, members |-> m]>> :
         m \in { <<>>, <<TreeObject(FALSE)>> } }

InitTree ==
    /\ scene \in TreeScenes
    /\ group_order = <<>>
    /\ export_groups = <<>>
    /\ last = Idle
    /\ NoExporter
    /\ tree = NoTree
    /\ window = NoWindow
    /\ history = NoHistory
    /\ config = NoConfig

NextTree ==
    \/ Aside /\ \E preserve_selection \in BOOLEAN : refresh(preserve_selection)
    \/ Aside /\ \E text \in SearchTexts : SearchTextChanged(text)
    \/ Aside /\ \E i \in 1..Len(tree.items) : UserExpands(i)
    \/ Aside /\ \E i \in 1..Len(tree.items), j \in 0..MaxMembers :
                    UserSelects(i, j)
    \/ Ready /\ Quiet /\ \E index \in Indexes : move_group_up(index)
    \/ Ready /\ Quiet /\ \E i \in 1..Len(scene) : ExternalDelete(i)
    \/ Return

SpecTree == InitTree /\ [][NextTree]_vars

----------------------------------------------------------------------------
(* A search typed, kept over refreshes and cleared: history keeps the      *)
(* groups that were expanded when the text was typed.                      *)

\* the user types a text in the empty search field
ApplyFilter(text) ==
    /\ history.phase = "none"
    /\ tree.items # <<>>
    /\ tree.search_text = <<>>
    /\ SearchTextChanged(text)
    /\ history' = [history EXCEPT !.phase = "filtered",
                                  !.expanded = ExpandedGroups(tree.items)]
    /\ UNCHANGED <<window, config>>

\* the timer refreshes the tree while the text is there
RefreshFiltered ==
    /\ history.phase = "filtered"
    /\ refresh(TRUE)
    /\ UNCHANGED <<history, window, config>>

\* the user clears the search field
ClearFilter ==
    /\ history.phase = "filtered"
    /\ SearchTextChanged(<<>>)
    /\ history' = [history EXCEPT !.phase = "cleared"]
    /\ UNCHANGED <<window, config>>

\* the timer refreshes the tree once the field is cleared
RefreshCleared ==
    /\ history.phase = "cleared"
    /\ refresh(TRUE)
    /\ history' = [history EXCEPT !.phase = "done"]
    /\ UNCHANGED <<window, config>>

\* before the text is typed the tree is refreshed, and the user expands,
\* collapses and selects
Unfiltered == history.phase = "none" /\ Aside

NextFilter ==
    \/ Unfiltered /\ \E preserve_selection \in BOOLEAN :
                        refresh(preserve_selection)
    \/ Unfiltered /\ \E i \in 1..Len(tree.items) : UserExpands(i)
    \/ Unfiltered /\ \E i \in 1..Len(tree.items), j \in 0..MaxMembers :
                        UserSelects(i, j)
    \/ \E text \in SearchTexts : ApplyFilter(text)
    \/ RefreshFiltered
    \/ ClearFilter
    \/ RefreshCleared

SpecFilter == InitTree /\ [][NextFilter]_vars

----------------------------------------------------------------------------
(* A group renamed from the context menu of its item                       *)
(* (BatchExporterWindow._rename_group).  history keeps the place of the    *)
(* renamed set in the scene and, in expanded, the key of the item when it  *)
(* was both selected and expanded.                                         *)

\* what the user types in RenameGroupDialog
RenameNames == { <<"d">>, <<"*">> }

\* the texts typed in the search field while groups are renamed
RenameSearchTexts == { <<>>, <<"B">> }

\* _rename_group up to the return of update_export_group, for the item i of
\* the tree.  Nothing changes the scene behind the DataManager here, so the
\* sync get_all_export_groups runs first finds nothing to change.
rename_group(i, new_name) ==
    LET set_name == tree.items[i].set_name IN
    /\ history.edits < MaxEdits
    /\ new_name # <<>>
    /\ group_order = SyncOrder(group_order, scene)
    /\ export_groups = SyncGroups(group_order, scene)
    /\ \E index \in 0..(Len(export_groups) - 1) :
          /\ export_groups[index + 1].set_name = set_name
          /\ update_export_group(index, new_name)
    /\ history' =
          [history EXCEPT
             !.phase = "renaming",
             !.edits = @ + 1,
             !.renamed = IndexOfSet(scene, set_name),
             !.expanded =
                 IF tree.items[i].selected /\ tree.items[i].expanded
                    /\ ~tree.items[i].hidden
                 THEN {set_name} ELSE {}]
    /\ UNCHANGED <<selection, dirs, export, tree, window, config>>

\* the end of _rename_group when update_export_group returned True:
\* tree_widget.refresh(preserve_selection=True)
rename_group_refresh ==
    /\ last.op = "update" /\ last.ok
    /\ Refreshed(TRUE)
    /\ last' = Idle
    /\ history' = [history EXCEPT !.phase = "renamed"]
    /\ UNCHANGED <<window, config>>

\* the end of _rename_group when update_export_group returned False
rename_group_failed ==
    /\ last.op = "update" /\ ~last.ok
    /\ Return

NextRename ==
    \/ Aside /\ \E preserve_selection \in BOOLEAN : refresh(preserve_selection)
    \/ Aside /\ \E text \in RenameSearchTexts : SearchTextChanged(text)
    \/ Aside /\ \E i \in 1..Len(tree.items) : UserExpands(i)
    \/ Aside /\ \E i \in 1..Len(tree.items), j \in 0..MaxMembers :
                    UserSelects(i, j)
    \/ \E i \in 1..Len(tree.items), new_name \in RenameNames :
          rename_group(i, new_name)
    \/ rename_group_refresh
    \/ rename_group_failed

SpecRename == InitTree /\ [][NextRename]_vars

----------------------------------------------------------------------------
(* The polling timer and the handlers that pause it.  window.timer says    *)
(* whether refresh_timer is active, window.scopes holds the was_active of  *)
(* the PausedTimerContext objects entered and not yet left, innermost      *)
(* last, and window.handlers the handlers in progress, innermost last.     *)

\* PausedTimerContext.__exit__ that starts the timer whatever it found
PausedTimerContext_exit_AlwaysStarts(timer, was_active) == TRUE

\* PausedTimerContext.__enter__: the timer as it leaves it
PausedTimerContext_enter(timer) == FALSE

\* PausedTimerContext.__exit__: the timer as it leaves it
PausedTimerContext_exit(timer, was_active) ==
    IF was_active THEN TRUE ELSE timer

\* the handlers that open a PausedTimerContext of their own
ScopedHandlers == {"context_menu", "add_group", "remove_selected"}

\* the handlers the group context menu calls inside its caller's scope
MenuHandlers == {"rename", "duplicate", "delete"}

\* with PausedTimerContext(self.refresh_timer): entered by handler h
EnterScope(w, h) ==
    [timer |-> PausedTimerContext_enter(w.timer),
     scopes |-> Append(w.scopes, w.timer),
     handlers |-> Append(w.handlers, h)]

\* the innermost handler is left; a scope of its own is left with it
LeaveHandler(w) ==
    LET h == w.handlers[Len(w.handlers)]
        scoped == h \in ScopedHandlers
    IN  [timer |-> IF scoped
                   THEN PausedTimerContext_exit(w.timer,
                                                w.scopes[Len(w.scopes)])
                   ELSE w.timer,
         scopes |-> IF scoped THEN SubSeq(w.scopes, 1, Len(w.scopes) - 1)
                    ELSE w.scopes,
         handlers |-> SubSeq(w.handlers, 1, Len(w.handlers) - 1)]

\* an exception leaves every handler in progress, innermost first
RECURSIVE Unwind(_)
Unwind(w) == IF w.handlers = <<>> THEN w ELSE Unwind(LeaveHandler(w))

InHandler(h) ==
    /\ window.handlers # <<>>
    /\ window.handlers[Len(window.handlers)] = h

\* the index the handlers look up for a set name after
\* get_all_export_groups
GroupIndexes(set_names) ==
    {index \in 0..(Len(export_groups) - 1) :
        export_groups[index + 1].set_name \in set_names}

\* the tree items a context menu can be asked on
ShownGroups == {tree.items[i].set_name : i \in 1..Len(tree.items)}

\* _on_timer_refresh: the timer fires only while it is active
TimerFires ==
    /\ window.timer
    /\ refresh(TRUE)
    /\ Aside

\* _on_context_menu_requested up to menu.exec_
ContextMenuRequested ==
    /\ Ready /\ window.handlers = <<>>
    /\ window' = EnterScope(window, "context_menu")
    /\ UNCHANGED <<scene, group_order, export_groups, last, selection,
                   dirs, export, tree, history, config>>

\* the menu action chosen: _rename_group, _duplicate_group, _delete_group
\* on a group item, _add_group on the empty area, _remove_selected on an
\* object item
MenuChooses(h) ==
    /\ Ready /\ InHandler("context_menu")
    /\ IF h \in MenuHandlers
       THEN /\ ShownGroups # {}
            /\ window' = [window EXCEPT !.handlers = Append(@, h)]
       ELSE window' = EnterScope(window, h)
    /\ UNCHANGED <<scene, group_order, export_groups, last, selection,
                   dirs, export, tree, history, config>>

\* add_group_btn and remove_btn clicked
ButtonClicked(h) ==
    /\ Ready /\ window.handlers = <<>>
    /\ window' = EnterScope(window, h)
    /\ UNCHANGED <<scene, group_order, export_groups, last, selection,
                   dirs, export, tree, history, config>>

\* the DataManager call handler h makes once its dialog is accepted.
\* Nothing changes the scene behind the DataManager here, so the sync the
\* handlers run before they look up an index finds nothing to change.
HandlerEdits(h) ==
    /\ Ready /\ InHandler(h)
    /\ history.edits < MaxEdits
    /\ history' = [history EXCEPT !.edits = @ + 1]
    /\ UNCHANGED <<selection, dirs, export, tree, window, config>>
    /\ group_order = SyncOrder(group_order, scene)
    /\ export_groups = SyncGroups(group_order, scene)
    /\ CASE h = "add_group" ->
              /\ Len(scene) < MaxCopied
              /\ \E name \in RenameNames : add_export_group(name)
         [] h = "rename" ->
              \E index \in GroupIndexes(ShownGroups),
                 name \in RenameNames : update_export_group(index, name)
         [] h = "duplicate" ->
              /\ Len(scene) < MaxCopied
              /\ \E index \in GroupIndexes(ShownGroups) :
                    CopyNameFits(index) /\ duplicate_export_group(index)
         [] h = "delete" ->
              \E index \in GroupIndexes(ShownGroups) :
                 remove_export_group(index)
         [] h = "remove_selected" ->
              \E index \in GroupIndexes(SelectedGroups(tree.items)) :
                 remove_export_group(index)

\* tree_widget.refresh at the end of a handler
HandlerRefreshes(h) ==
    /\ InHandler(h)
    /\ refresh(h # "add_group")
    /\ Aside

\* the innermost handler returns
HandlerReturns ==
    /\ Ready /\ window.handlers # <<>>
    /\ window' = LeaveHandler(window)
    /\ UNCHANGED <<scene, group_order, export_groups, last, selection,
                   dirs, export, tree, history, config>>

\* a dialog or a widget call raises in the innermost handler
HandlerRaises ==
    /\ Ready /\ window.handlers # <<>>
    /\ window' = Unwind(window)
    /\ UNCHANGED <<scene, group_order, export_groups, last, selection,
                   dirs, export, tree, history, config>>

\* the user selects a group item while no handler runs
UserSelectsGroup(i) ==
    /\ window.handlers = <<>>
    /\ UserSelects(i, 0)
    /\ Aside

NextTimer ==
    \/ TimerFires
    \/ ContextMenuRequested
    \/ \E h \in MenuHandlers \cup {"add_group", "remove_selected"} :
          MenuChooses(h)
    \/ \E h \in {"add_group", "remove_selected"} : ButtonClicked(h)
    \/ \E h \in MenuHandlers \cup {"add_group", "remove_selected"} :
          HandlerEdits(h)
    \/ \E h \in MenuHandlers \cup {"add_group", "remove_selected"} :
          HandlerRefreshes(h)
    \/ HandlerReturns
    \/ HandlerRaises
    \/ \E i \in 1..Len(tree.items) : UserSelectsGroup(i)
    \/ Return

SpecTimer == InitTree /\ [][NextTimer]_vars

----------------------------------------------------------------------------
(* The configuration file (persistence.py) and DataManager.save_to_file    *)
(* and load_from_file.  A file is NoFile or what json.load makes of it:    *)
(* json says whether it parses, dict whether the document is an object,    *)
(* has_groups and has_settings whether the two keys are there, and         *)
(* export_groups and fbx_settings hold their values.                       *)

\* a file that is not JSON
NotJson ==
    [exists |-> TRUE, json |-> FALSE, dict |-> FALSE, has_groups |-> FALSE,
     export_groups |-> [list |-> FALSE, items |-> <<>>],
     has_settings |-> FALSE, fbx_settings |-> StringList({})]

\* a JSON document that is not an object
NotDict == [NotJson EXCEPT !.json = TRUE]

\* a JSON object with the keys said to be there
Document(has_groups, groups, has_settings, settings) ==
    [exists |-> TRUE, json |-> TRUE, dict |-> TRUE,
     has_groups |-> has_groups,
     export_groups |-> IF has_groups THEN groups
                       ELSE [list |-> FALSE, items |-> <<>>],
     has_settings |-> has_settings,
     fbx_settings |-> IF has_settings THEN settings ELSE StringList({})]

\* an entry of export_groups that is an object {name, set_name}
GroupEntry(name, set_name) ==
    [dict |-> TRUE, name |-> name, set_name |-> set_name]

\* an entry of export_groups that is a number
NumberEntry == [dict |-> FALSE, name |-> <<>>, set_name |-> <<>>]

\* json.dump(data, f): the document written for the DataManager's data
json_dump(groups, settings) ==
    Document(TRUE,
             [list |-> TRUE,
              items |-> [i \in 1..Len(groups) |->
                            GroupEntry(groups[i].name, groups[i].set_name)]],
             TRUE, settings)

\* field in data["fbx_settings"], for an object and for an array
HasField(settings, field) ==
    IF settings.dict THEN field \in DOMAIN settings.value
    ELSE field \in settings.items

\* JsonConfigRepository.load: whether it returns the data or raises
load(file) ==
    IF ~file.json THEN [ok |-> FALSE, err |-> "json"]
    ELSE IF ~file.dict THEN [ok |-> FALSE, err |-> "format"]
    ELSE IF ~file.has_groups THEN [ok |-> FALSE, err |-> "export_groups"]
    ELSE IF ~file.has_settings THEN [ok |-> FALSE, err |-> "fbx_settings"]
    ELSE IF \E field \in SettingsFields : ~HasField(file.fbx_settings, field)
    THEN [ok |-> FALSE, err |-> "settings_fields"]
    ELSE [ok |-> TRUE, err |-> ""]

\* DataManager._create_sets_from_data from entry i on: the scene it leaves,
\* whether an entry made it raise, whether a create_set failed and was logged.
\* fails says for each entry whether cmds.sets raises.
RECURSIVE create_sets_from_data(_, _, _, _)
create_sets_from_data(sc, items, i, fails) ==
    IF i > Len(items)
    THEN [scene |-> sc, raised |-> FALSE, logged |-> FALSE]
    ELSE IF ~items[i].dict
    THEN [scene |-> sc, raised |-> TRUE, logged |-> FALSE]
    ELSE LET set_name == IF items[i].set_name = <<>>
                         THEN get_unique_set_name(sc, items[i].name)
                         ELSE items[i].set_name
             r == create_set(sc, Len(sc) + 1, items[i].name, fails[i])
             made == IF object_exists(sc, set_name) THEN sc ELSE r.scene
             rest == create_sets_from_data(made, items, i + 1, fails)
         IN  [rest EXCEPT !.logged =
                 @ \/ (~object_exists(sc, set_name) /\ ~r.ok)]

\* DataManager.update_fbx_settings({"up_axis": up_axis})
update_fbx_settings(up_axis) ==
    /\ Ready
    /\ config.fbx_settings.dict
    /\ config' = [config EXCEPT !.fbx_settings.value.up_axis = up_axis]
    /\ last' = Call("settings", TRUE, "", -1, FALSE, FALSE)
    /\ UNCHANGED <<scene, group_order, export_groups>>

\* DataManager.save_to_file; fail: the path is not writable
save_to_file(fail) ==
    /\ Ready
    /\ DoSync(group_order, scene)
    /\ IF fail
       THEN /\ config' = config
            /\ last' = Call("save", FALSE, "persistence", -1, TRUE, FALSE)
       ELSE /\ config' =
                  [config EXCEPT
                     !.file = json_dump(SyncGroups(group_order, scene),
                                        config.fbx_settings)]
            /\ last' = Call("save", TRUE, "", -1, TRUE, FALSE)
    /\ scene' = scene

\* DataManager.load_from_file
load_from_file ==
    /\ Ready
    /\ IF ~config.file.exists
       THEN /\ last' = Failed("load", "no_file", FALSE)
            /\ UNCHANGED <<scene, group_order, export_groups, config>>
       ELSE LET loaded == load(config.file) IN
            IF ~loaded.ok
            THEN /\ last' = Failed("load", loaded.err, FALSE)
                 /\ UNCHANGED <<scene, group_order, export_groups, config>>
            ELSE /\ config' = [config EXCEPT
                                 !.fbx_settings = config.file.fbx_settings]
                 /\ IF ~config.file.export_groups.list
                    THEN /\ last' = Failed("load", "export_groups", FALSE)
                         /\ UNCHANGED <<scene, group_order, export_groups>>
                    ELSE \E fails \in
                            [1..Len(config.file.export_groups.items)
                                -> BOOLEAN] :
                         LET r == create_sets_from_data(
                                     scene, config.file.export_groups.items,
                                     1, fails)
                         IN  /\ scene' = r.scene
                             /\ IF r.raised
                                THEN /\ last' = Failed("load", "entry", FALSE)
                                     /\ UNCHANGED <<group_order, export_groups>>
                                ELSE /\ DoSync(group_order, r.scene)
                                     /\ last' = Call("load", TRUE, "", -1,
                                                     TRUE, r.logged)

\* the values of fbx_settings somebody writes into the file: all five
\* fields, one field missing, an array of the five names
SettingsWritten ==
    {Dict([get_default_fbx_settings.value EXCEPT !.up_axis = "Z"]),
     StringList(SettingsFields)}
       \cup {Dict([f \in SettingsFields \ {missing} |->
                      get_default_fbx_settings.value[f]]) :
                missing \in SettingsFields}

\* the values of export_groups somebody writes into the file: not an array,
\* an array of a group, an array of a group and a number
GroupsWritten ==
    {[list |-> FALSE, items |-> <<>>],
     [list |-> TRUE,
      items |-> <<GroupEntry(<<"d">>, SET_PREFIX \o <<"d">>)>>],
     [list |-> TRUE,
      items |-> <<GroupEntry(<<"d">>, SET_PREFIX \o <<"d">>),
                  NumberEntry>>]}

\* the files somebody else leaves at the path of the configuration
ConfigFiles ==
    {NotJson, NotDict}
       \cup {Document(FALSE, g, TRUE, s) : g \in GroupsWritten,
                                          s \in SettingsWritten}
       \cup {Document(TRUE, g, has_settings, s) :
                g \in GroupsWritten, has_settings \in BOOLEAN,
                s \in SettingsWritten}

\* the file is written from outside the tool
ExternalWrite(file) ==
    /\ Ready
    /\ config.file # file
    /\ config' = [config EXCEPT !.file = file]
    /\ last' = Call("external", TRUE, "", -1, FALSE, FALSE)
    /\ UNCHANGED <<scene, group_order, export_groups>>

\* a step of the DataManager's persistence leaves the exporters and the
\* widgets alone
Stored == UNCHANGED <<selection, dirs, export, tree, window, history>>

NextConfig ==
    \/ Ready /\ Quiet /\ sync_from_scene
    \/ Ready /\ Quiet /\ \E index \in Indexes : move_group_up(index)
    \/ Ready /\ Quiet /\ \E i \in 1..Len(scene) : ExternalDelete(i)
    \/ Stored /\ \E up_axis \in {"Y", "Z"} : update_fbx_settings(up_axis)
    \/ Stored /\ \E fail \in BOOLEAN : save_to_file(fail)
    \/ Stored /\ load_from_file
    \/ Stored /\ \E file \in ConfigFiles : ExternalWrite(file)
    \/ Return

SpecConfig == InitTree /\ [][NextConfig]_vars

----------------------------------------------------------------------------
(* Properties *)

Elems(s) == {s[i] : i \in 1..Len(s)}

NoDuplicates(s) == \A i, j \in 1..Len(s) : i # j => s[i] # s[j]

\* x comes before y in s
Before(s, x, y) ==
    \E i, j \in 1..Len(s) : i < j /\ s[i] = x /\ s[j] = y

\* the ids of the export groups the scene reports
SceneGroupIds == {scene[i].name : i \in {j \in 1..Len(scene) :
                                          StartsWith(scene[j].name, SET_PREFIX)}}

SetNamesOf(groups) == [i \in 1..Len(groups) |-> groups[i].set_name]

\* group_order lists exactly the groups of the scene
Reconciled == Staleness = 0

\* C1: after every create / remove / rename / duplicate / moveUp / moveDown
\* call that ran its internal sync, group_order has no duplicate id and every
\* id in it is an export group the scene currently reports.
C1_OrderValidAfterCall ==
    (last.op \in {"add", "remove", "update", "duplicate", "move_up",
                  "move_down"}
        /\ last.synced)
    => /\ NoDuplicates(group_order)
       /\ Elems(group_order) \subseteq SceneGroupIds

\* a duplicate made while the scene also holds a set that is no export group
C1_Witness ==
    /\ last.op = "duplicate" /\ last.ok
    /\ Len(group_order) = 2
    /\ Elems(group_order) = SceneGroupIds

\* C2 (as claimed): a successful rename of the group at index i of a
\* reconciled group_order leaves the list as long as it was, puts the new id
\* at index i and keeps every other entry at its index.
C2_RenameKeepsIndex ==
    [][(last'.op = "update" /\ last'.ok /\ Reconciled)
       => \A index \in Indexes, name \in UserNames :
             (/\ 0 <= index /\ index < Len(group_order)
              /\ update_export_group(index, name))
             => /\ Len(group_order') = Len(group_order)
                /\ \A j \in 1..Len(group_order) :
                      j # index + 1 => group_order'[j] = group_order[j]
                /\ group_order'[index + 1] \notin Elems(group_order)
                /\ group_order'[index + 1] \in SceneGroupIds'
      ]_vars

\* C3: sync drops from group_order exactly the ids the scene no longer
\* reports, keeps the surviving ids in their previous relative order, and
\* appends the ids the scene reports and group_order lacked, after all the
\* survivors, in the order the scene enumerates them.
C3_SyncReconciles ==
    [][last'.op = "sync"
       => LET enum == SelectSeq(SceneNames(scene),
                                LAMBDA n : StartsWith(n, SET_PREFIX))
              survivors == Elems(group_order) \cap Elems(enum)
              missing == Elems(enum) \ Elems(group_order)
          IN  /\ Elems(group_order') = survivors \cup missing
              /\ NoDuplicates(group_order')
              /\ \A x, y \in survivors :
                    Before(group_order, x, y) => Before(group_order', x, y)
              /\ \A x \in survivors, y \in missing : Before(group_order', x, y)
              /\ \A x, y \in missing :
                    Before(enum, x, y) => Before(group_order', x, y)
      ]_vars

\* a sync that dropped a vanished id and appended two new ones, enumerated
\* otherwise than group_order would list them after a move
C3_Witness ==
    /\ last.op = "sync"
    /\ Len(group_order) = 2
    /\ Len(scene) = 2
    /\ export_groups # <<>>
    /\ group_order = SceneNames(scene)
    /\ scene[1].name = SET_PREFIX \o <<"a", "_", "1">>

\* C4: sync is idempotent: right after a sync, running sync again on the
\* unchanged scene would assign group_order and the snapshot list the values
\* they already have.
C4_SyncIdempotent ==
    last.op = "sync"
    => /\ SyncOrder(group_order, scene) = group_order
       /\ SyncGroups(group_order, scene) = export_groups

C4_Witness ==
    /\ last.op = "sync"
    /\ Len(group_order) = 2
    /\ group_order[1] = scene[2].name

\* C5: no operation other than moveUp / moveDown re-sorts: two ids that are in
\* group_order before and after the step keep their relative order.
C5_NoResort ==
    [][last'.op \notin {"move_up", "move_down"}
       => \/ group_order' = group_order
          \/ \A x, y \in Elems(group_order) \cap Elems(group_order') :
                Before(group_order, x, y) => Before(group_order', x, y)
      ]_vars

\* a sync that kept an order opposite to the scene's enumeration
C5_Witness ==
    /\ last.op \in {"sync", "add", "remove", "update", "duplicate"}
    /\ last.synced
    /\ Len(group_order) = 2 /\ Len(scene) = 2
    /\ group_order[1] = scene[2].name
    /\ group_order[2] = scene[1].name

\* the two entries at 1-based positions p and p + 1 of group_order are
\* exchanged, every other entry stays, and the scene is untouched
ExchangedAt(p) ==
    /\ Len(group_order') = Len(group_order)
    /\ group_order'[p] = group_order[p + 1]
    /\ group_order'[p + 1] = group_order[p]
    /\ \A j \in 1..Len(group_order) :
          j \notin {p, p + 1} => group_order'[j] = group_order[j]
    /\ scene' = scene

\* C6 (as claimed): moveUp(index) with 0 < index < len, and moveDown(index)
\* with 0 <= index < len - 1, succeed, exchange exactly the two adjacent
\* entries of group_order, leave every other entry in place and leave the
\* scene's groups and their members as they were.
C6_MoveExchangesAlways ==
    [][\A index \in Indexes :
          /\ (/\ last'.op = "move_up"
              /\ 0 < index /\ index < Len(group_order)
              /\ move_group_up(index))
             => last'.ok /\ ExchangedAt(index)
          /\ (/\ last'.op = "move_down"
              /\ 0 <= index /\ index < Len(group_order) - 1
              /\ move_group_down(index))
             => last'.ok /\ ExchangedAt(index + 1)
      ]_vars

\* C6 (amended): the same, for a group_order that lists exactly the groups
\* of the scene when the call is made.
C6_MoveExchangesWhenReconciled ==
    [][\A index \in Indexes :
          /\ (/\ last'.op = "move_up"
              /\ Reconciled
              /\ 0 < index /\ index < Len(group_order)
              /\ move_group_up(index))
             => last'.ok /\ ExchangedAt(index)
          /\ (/\ last'.op = "move_down"
              /\ Reconciled
              /\ 0 <= index /\ index < Len(group_order) - 1
              /\ move_group_down(index))
             => last'.ok /\ ExchangedAt(index + 1)
      ]_vars

\* a move that succeeded on two groups, one of which has a member
C6_Witness ==
    /\ last.op \in {"move_up", "move_down"} /\ last.ok
    /\ Len(group_order) = 2
    /\ Reconciled
    /\ \E i \in 1..Len(scene) :
          scene[i].members # <<>> /\ StartsWith(scene[i].name, SET_PREFIX)

\* C7: moveUp(index) with index <= 0 or index >= len, and moveDown(index)
\* with index < 0 or index >= len - 1, return failure and leave group_order
\* (and the snapshot list and the scene) unchanged.
C7_MoveAtBoundaryFails ==
    [][\A index \in Indexes :
          /\ (/\ last'.op = "move_up"
              /\ (index <= 0 \/ index >= Len(group_order))
              /\ move_group_up(index))
             => ~last'.ok /\ UNCHANGED <<group_order, export_groups, scene>>
          /\ (/\ last'.op = "move_down"
              /\ (index < 0 \/ index >= Len(group_order) - 1)
              /\ move_group_down(index))
             => ~last'.ok /\ UNCHANGED <<group_order, export_groups, scene>>
      ]_vars

\* a refused move on a list of two groups that lags behind the scene
C7_Witness ==
    /\ last.op \in {"move_up", "move_down"} /\ ~last.ok
    /\ Len(group_order) = 2
    /\ ~Reconciled

\* the call failed, ran no sync and left group_order and the snapshot alone
FailedWithoutSync ==
    /\ ~last'.ok
    /\ ~last'.synced
    /\ UNCHANGED <<group_order, export_groups>>

\* C8: when the Maya command inside create, rename, remove or duplicate
\* raises, the call reports failure, group_order is unchanged and the sync
\* that would follow is not run.
C8_StoreFailureLeavesOrder ==
    [][(/\ last'.op \in {"add", "update", "remove", "duplicate"}
        /\ last'.raised)
       => FailedWithoutSync
      ]_vars

\* a Maya command that raised while group_order lagged behind the scene
C8_Witness ==
    /\ last.op \in {"add", "update", "remove", "duplicate"}
    /\ last.raised
    /\ ~Reconciled
    /\ group_order # <<>>

\* the name is empty, all blanks, too long or has a control or reserved
\* character
InvalidAsTyped(name) ==
    \/ name = <<>>
    \/ \A i \in 1..Len(name) : name[i] \in Whitespace
    \/ Len(name) > MAX_NAME_LENGTH
    \/ \E i \in 1..Len(name) : name[i] \in ReservedChars \cup ControlChars

\* the same, judged on the name without leading and trailing whitespace
InvalidOnceTrimmed(name) ==
    LET trimmed == Strip(name) IN
    \/ trimmed = <<>>
    \/ Len(trimmed) > MAX_NAME_LENGTH
    \/ \E i \in 1..Len(trimmed) : trimmed[i] \in ReservedChars \cup ControlChars

\* the names of UserNames the claim calls invalid, read as typed
InvalidNamesAsTyped == {n \in UserNames : InvalidAsTyped(n)}

\* the names of UserNames that are invalid once trimmed
InvalidNamesOnceTrimmed == {n \in UserNames : InvalidOnceTrimmed(n)}

\* the call failed for one of the reasons in errs, ran no sync and changed
\* neither the scene nor group_order
RefusedName(errs) ==
    /\ ~last'.ok
    /\ last'.err \in errs
    /\ ~last'.synced
    /\ UNCHANGED <<scene, group_order, export_groups>>

\* what a rename can report before it issues a Maya command: the name, or
\* before it the index or the set it was asked to rename
RenameRefusals == {"validation", "index", "not_found"}

\* C9 (as claimed): create or rename with a name that is empty, all
\* whitespace, longer than 255 characters or contains a control or reserved
\* character fails with a validation failure and changes neither the scene
\* nor group_order: the Maya command is not reached.
C9_InvalidNameRefused ==
    [][/\ last'.op = "add"
          => \/ RefusedName({"validation"})
             \/ \A name \in InvalidNamesAsTyped : ~add_export_group(name)
       /\ last'.op = "update"
          => \/ RefusedName(RenameRefusals)
             \/ \A index \in Indexes, name \in InvalidNamesAsTyped :
                   ~update_export_group(index, name)
      ]_vars

\* C9 (amended): the same for a name that, once its leading and trailing
\* whitespace is removed, is empty, longer than 255 characters or contains a
\* control or reserved character.
C9_InvalidTrimmedNameRefused ==
    [][/\ last'.op = "add"
          => \/ RefusedName({"validation"})
             \/ \A name \in InvalidNamesOnceTrimmed :
                   ~add_export_group(name)
       /\ last'.op = "update"
          => \/ RefusedName(RenameRefusals)
             \/ \A index \in Indexes, name \in InvalidNamesOnceTrimmed :
                   ~update_export_group(index, name)
      ]_vars

\* a rename refused for its name while two groups exist
C9_Witness ==
    /\ last.op = "update"
    /\ last.err = "validation"
    /\ Len(group_order) = 2

\* candidate "_" k
Suffixed(candidate, k) == candidate \o <<"_">> \o IntToStr(k)

\* id is the collision-free id for candidate in the scene
CollisionFree(id, candidate) ==
    /\ ~object_exists(scene, id)
    /\ IF ~object_exists(scene, candidate) THEN id = candidate
       ELSE \E k \in 1..(Len(scene) + 1) :
               /\ id = Suffixed(candidate, k)
               /\ \A j \in 1..(k - 1) :
                     object_exists(scene, Suffixed(candidate, j))

\* C10: the id given to a new group is the prefixed sanitized name if the
\* scene has no object of that name, else that name suffixed with _k for the
\* smallest k >= 1 that is free; it is never the name of an object the scene
\* had before the call.
C10_UniqueId ==
    [][(last'.op = "add" /\ last'.ok)
       => \A name \in UserNames :
             add_export_group(name)
                => /\ Len(scene') = Len(scene) + 1
                   /\ CollisionFree(scene'[Len(scene')].name,
                                    SET_PREFIX \o sanitize_for_maya_name(
                                                     Strip(name)))
      ]_vars

\* a second group created under a name already taken got the suffix _1
C10_Witness ==
    /\ last.op = "add" /\ last.ok
    /\ Len(scene) = 2
    /\ scene[1].name = SET_PREFIX \o <<"a">>
    /\ scene[2].name = SET_PREFIX \o <<"a", "_", "1">>

----------------------------------------------------------------------------

\* the new set, which cmds.ls enumerates last
NewId == scene'[Len(scene')].name

\* the new id is the last entry of group_order, the entries that were there
\* are where they were, and the call returned the index of the new id
AppendedLast ==
    /\ Len(group_order') >= Len(group_order)
    /\ group_order' # <<>>
    /\ group_order'[Len(group_order')] = NewId
    /\ \A j \in 1..Len(group_order) : group_order'[j] = group_order[j]
    /\ last'.ret = Len(group_order') - 1

\* every id of group_order is still a group of the scene
NoVanishedId == Elems(group_order) \subseteq SceneGroupIds

\* C11 (as claimed): after a successful create(name) the new group's id is the
\* last entry of group_order, all entries that were present before keep their
\* positions, and the returned index is the position of the new id.
C11_CreateAppends ==
    [][(last'.op = "add" /\ last'.ok) => AppendedLast]_vars

\* C11 (amended): the same, when every id group_order holds at the time of
\* the call is still a group of the scene.
C11_CreateAppendsWhenNoneVanished ==
    [][(last'.op = "add" /\ last'.ok /\ NoVanishedId) => AppendedLast]_vars

\* a second group created, returned as index 1
C11_Witness ==
    /\ last.op = "add" /\ last.ok
    /\ last.ret = 1
    /\ Len(group_order) = 2
    /\ group_order[2] = scene[Len(scene)].name

\* index names no entry of the list, or an entry whose set the scene lacks
StaleReference(index) ==
    \/ index < 0
    \/ index >= Len(export_groups)
    \/ ~object_exists(scene, export_groups[index + 1].set_name)

\* C12: remove of a group whose backing set is already absent from the scene,
\* or of an index outside the current list, is reported as an error (the set
\* was not found, or the index is out of range), never as a success.
C12_StaleRemoveIsError ==
    [][last'.op = "remove"
       => \A index \in Indexes :
             (StaleReference(index) /\ remove_export_group(index))
             => /\ ~last'.ok
                /\ last'.err \in {"not_found", "index"}
                /\ UNCHANGED <<scene, group_order, export_groups>>
      ]_vars

\* a remove refused because the set had been deleted in Maya meanwhile
C12_Witness ==
    /\ last.op = "remove"
    /\ last.err = "not_found"
    /\ Len(group_order) = 2

----------------------------------------------------------------------------

\* the members of a set as object references: a reference is the same with
\* and without its component suffix
RefsOf(sc, set_name) == get_set_objects(sc, set_name)

Copy == <<"_", "c", "o", "p", "y">>

\* what the claim says of a copy but for its display name: the new set holds
\* the source's members, its id is the last entry of group_order, and the
\* source has the members and the position it had
CopiedAndAppended(index) ==
    LET source == export_groups[index + 1].set_name IN
    /\ Len(scene') = Len(scene) + 1
    /\ RefsOf(scene', NewId) = RefsOf(scene, source)
    /\ group_order'[Len(group_order')] = NewId
    /\ maya_get_set_members(scene', source)
          = maya_get_set_members(scene, source)
    /\ group_order[index + 1] = source
    /\ group_order'[index + 1] = source

----------------------------------------------------------------------------
(* The exporters *)

\* export_group was called, and has returned or raised
Exported == export.i > 0

\* the group and the result of that call
ExportedGroup == export.groups[export.i]

ExportSucceeded ==
    /\ export.pc # "raised"
    /\ export.results[export.i].success

\* the call issued cmd
Issued(cmd) == \E k \in 1..Len(export.calls) : export.calls[k].cmd = cmd

\* what the claim lists: settings with no directory, a wrong axis or a wrong
\* unit, a group whose set is gone or empty, a directory that is not there
\* and cannot be created
ValidationFails ==
    \/ export.settings.export_directory = ""
    \/ export.settings.up_axis \notin {"Y", "Z"}
    \/ export.settings.convert_unit \notin {"cm", "m", "mm", "in", "ft"}
    \/ ~object_exists(scene, ExportedGroup.set_name)
    \/ maya_get_set_members(scene, ExportedGroup.set_name) = <<>>
    \/ /\ export.settings.export_directory \notin export.dirs_before
       /\ export.no_makedirs

\* C14: when the settings are invalid (no directory, axis outside {Y, Z},
\* unit outside {cm, m, mm, in, ft}), the group's set is gone or empty, or
\* the directory cannot be created, export_group of exporters/fbx_exporter.py
\* returns failure and has issued neither select nor FBXExport.
C14_ValidationFirst ==
    (Exported /\ export.exporter = "fbx" /\ ValidationFails)
    => /\ ~ExportSucceeded
       /\ ~Issued("select")
       /\ ~Issued("FBXExport")
       /\ selection = export.entry

\* the second group of a batch, refused for a directory that cannot be made
C14_Witness ==
    /\ Exported /\ export.exporter = "fbx"
    /\ export.op = "export_all_groups" /\ export.i = 2
    /\ validate(export.settings)
    /\ maya_get_set_members(scene, ExportedGroup.set_name) # <<>>
    /\ export.settings.export_directory \notin export.dirs_before
    /\ export.no_makedirs

LastSelectDone ==
    LET selects == SelectSeq(export.calls, LAMBDA c : c.cmd = "select") IN
    selects = <<>> \/ selects[Len(selects)].ok

Unbacked ==
    {k \in 1..Len(export.groups) :
        ~object_exists(scene, export.groups[k].set_name)}

\* C17: the success count export_all_groups returns is the number of results
\* with success = true; with valid settings and no command raising, when
\* exactly group k has no backing set and every other group has members,
\* the count is N - 1, result k is a failure and every other is a success.
C17_SuccessCount ==
    (export.op = "export_all_groups" /\ export.pc = "returned")
    => /\ export.success_count
            = Cardinality({k \in 1..Len(export.results) :
                              export.results[k].success})
       /\ (/\ validate(export.settings)
           /\ ~export.faulted
           /\ Cardinality(Unbacked) = 1
           /\ \A k \in 1..Len(export.groups) :
                 k \notin Unbacked
                 => maya_get_set_members(scene, export.groups[k].set_name)
                       # <<>>)
          => /\ export.success_count = Len(export.groups) - 1
             /\ \A k \in 1..Len(export.groups) :
                   export.results[k].success <=> k \notin Unbacked

\* the legacy exporter's batch, the first group's set gone, the directory
\* made on the way
C17_Witness ==
    /\ export.op = "export_all_groups" /\ export.pc = "returned"
    /\ export.exporter = "legacy"
    /\ validate(export.settings)
    /\ ~export.faulted
    /\ Unbacked = {1}
    /\ export.success_count = Len(export.groups) - 1
    /\ export.settings.export_directory \notin export.dirs_before

----------------------------------------------------------------------------
(* The tree widget *)

\* a step of refresh that captured the expansion and the selection
PreservingRefresh ==
    /\ tree'.op = "refresh_preserving"
    /\ last' = last
    /\ scene' = scene

\* the group keys and the member keys of the items of a tree
GroupKeys(items) == {items[i].set_name : i \in 1..Len(items)}

MemberKeys(items) ==
    {<<items[p[1]].set_name, items[p[1]].children[p[2]].name>> :
        p \in {q \in {<<i, j>> : i \in 1..Len(items), j \in 1..MaxMembers} :
                 q[2] <= Len(items[q[1]].children)}}

\* the groups and members a tree shows, in its order
Shape(items) ==
    [i \in 1..Len(items) |->
        [set_name |-> items[i].set_name,
         members |-> [j \in 1..Len(items[i].children) |->
                         items[i].children[j].name]]]

\* the rebuild finds the data the tree was built from
UnchangedData == Shape(tree'.items) = Shape(tree.items)

\* the selection comes back as it was captured, less the vanished keys
SelectionRestored ==
    /\ SelectedGroups(tree'.items)
          = SelectedGroups(tree.items) \cap GroupKeys(tree'.items)
    /\ SelectedObjects(tree'.items)
          = SelectedObjects(tree.items) \cap MemberKeys(tree'.items)

\* two characters that are the same letter, in whatever case
SameLetter(c, d) ==
    \/ c = d
    \/ \E i \in 1..Len(UpperCase) : {c, d} = {UpperCase[i], LowerCase[i]}

\* s contains t when the case of the letters is ignored
ContainsIgnoringCase(s, t) ==
    \E i \in 0..(Len(s) - Len(t)) :
       \A k \in 1..Len(t) : SameLetter(s[i + k], t[k])

\* the groups the active filter expands: those with a child whose label
\* contains the search text
FilterExpanded(items, search_text) ==
    {items[i].set_name :
        i \in {k \in 1..Len(items) :
                 /\ search_text # <<>>
                 /\ \E j \in 1..Len(items[k].children) :
                       ContainsIgnoringCase(items[k].children[j].name,
                                            search_text)}}

\* C18 as claimed: a preserving refresh that finds the data unchanged
\* leaves expanded exactly the groups that were expanded before it and
\* still exist, and selected exactly the groups and members that were
\* selected before it and still exist.
C18_RoundTrip ==
    [][(PreservingRefresh /\ UnchangedData)
       => /\ ExpandedGroups(tree'.items)
                = ExpandedGroups(tree.items) \cap GroupKeys(tree'.items)
          /\ SelectionRestored]_vars

\* C18 amended: after a preserving refresh, with the data changed or not,
\* the expanded groups are those that were expanded before and still exist,
\* those that hold a member whose selection was restored and those the
\* active filter expands; the selected groups and members are those that
\* were selected before and still exist.
C18_RoundTripWithForcedExpansion ==
    [][PreservingRefresh
       => /\ ExpandedGroups(tree'.items)
                = (ExpandedGroups(tree.items) \cap GroupKeys(tree'.items))
                     \cup SelectedParents(tree'.items)
                     \cup FilterExpanded(tree'.items, tree'.search_text)
          /\ SelectionRestored]_vars

\* a preserving refresh, no filter active, restored the selection of a
\* member and of a group other than the member's, and left a group collapsed
C18_Witness ==
    /\ tree.op = "refresh_preserving"
    /\ tree.search_text = <<>>
    /\ SelectedObjects(tree.items) # {}
    /\ SelectedGroups(tree.items) \ SelectedParents(tree.items) # {}
    /\ \E i \in 1..Len(tree.items) : ~tree.items[i].expanded

\* a step of refresh, preserving or not
Rebuild ==
    /\ tree'.op \in {"refresh", "refresh_preserving"}
    /\ last' = last
    /\ scene' = scene

\* the labels of the members Maya reports for a set, in Maya's order
ReportedMembers(sc, set_name) ==
    LET members == maya_get_set_members(sc, set_name) IN
    [j \in 1..Len(members) |-> members[j].node]

\* C19: after every refresh the tree holds one group item per entry of
\* group_order, in that order and labelled with the group's name, each with
\* one child per member Maya reports for the group's set, in Maya's order,
\* and nothing else: no item of the tree before is left in it.
C19_RebuildFromOrder ==
    [][Rebuild
       => /\ Len(tree'.items) = Len(group_order')
          /\ \A i \in 1..Len(group_order') :
                /\ tree'.items[i].set_name = group_order'[i]
                /\ tree'.items[i].label = MakeGroup(group_order'[i]).name
                /\ [j \in 1..Len(tree'.items[i].children) |->
                       tree'.items[i].children[j].name]
                      = ReportedMembers(scene', group_order'[i])]_vars

\* a tree rebuilt over a tree, its groups in another order than Maya's,
\* one group with a member held through a vertex component and one without
\* members
C19_Witness ==
    /\ tree.op = "refresh_preserving"
    /\ Len(tree.items) = 2 /\ Len(scene) = 2
    /\ Shape(tree.items)
          = [i \in 1..2 |->
                [set_name |-> group_order[i],
                 members |-> ReportedMembers(scene, group_order[i])]]
    /\ tree.items[1].set_name = scene[2].name
    /\ tree.items[1].children = <<>>
    /\ \E j \in 1..Len(scene[1].members) : scene[1].members[j].vtx

\* a step that ran _filter_tree_items with a search text that is not empty
FilterApplied ==
    /\ tree'.op \in {"filter", "refresh", "refresh_preserving"}
    /\ last' = last
    /\ scene' = scene
    /\ tree'.search_text # <<>>

\* child j of group item i, or the group item itself (j = 0), matches
Matches(items, i, j, text) ==
    IF j = 0 THEN ContainsIgnoringCase(items[i].label, text)
    ELSE ContainsIgnoringCase(items[i].children[j].name, text)

HasMatchingChild(items, i, text) ==
    \E j \in 1..Len(items[i].children) : Matches(items, i, j, text)

\* every item is shown iff its label or the label of one of its children
\* contains the text
VisibleIffMatching(items, text) ==
    \A i \in 1..Len(items) :
       /\ ~items[i].hidden
             <=> (\/ Matches(items, i, 0, text)
                  \/ HasMatchingChild(items, i, text))
       /\ \A j \in 1..Len(items[i].children) :
             ~items[i].children[j].hidden <=> Matches(items, i, j, text)

\* C20: whenever the search text is not empty, a group item is shown iff
\* its label or the label of one of its children contains the text, and a
\* child item iff its own label does, the case of the letters ignored; and
\* when the filter has just been applied (the text edited, or the tree
\* rebuilt) every group with a matching child is expanded, whatever
\* expanded_groups_state holds.
C20_FilterVisibility ==
    [][tree'.search_text # <<>>
       => /\ VisibleIffMatching(tree'.items, tree'.search_text)
          /\ FilterApplied
                => \A i \in 1..Len(tree'.items) :
                      HasMatchingChild(tree'.items, i, tree'.search_text)
                         => tree'.items[i].expanded]_vars

\* a tree rebuilt under the filter "B": the first group, whose label has no
\* "b" and which the saved expansion state leaves out, is shown and expanded
\* for its child "b"; the second group, without a match, is hidden
C20_Witness ==
    /\ tree.op = "refresh_preserving"
    /\ tree.search_text = <<"B">>
    /\ Len(tree.items) = 2
    /\ ~tree.expanded_groups_state.is_none
    /\ tree.items[1].set_name \notin tree.expanded_groups_state.keys
    /\ ~Contains(tree.items[1].label, <<"b">>)
    /\ tree.items[1].children # <<>>
    /\ tree.items[1].children[1].name = <<"b">>
    /\ ~tree.items[1].children[1].hidden
    /\ tree.items[1].expanded /\ ~tree.items[1].hidden
    /\ tree.items[2].hidden

\* the items of a tree that are shown: <<i, 0>> for group item i, <<i, j>>
\* for its j-th child
VisibleNodes(items) ==
    {<<i, 0>> : i \in {k \in 1..Len(items) : ~items[k].hidden}}
       \cup {p \in {<<i, j>> : i \in 1..Len(items), j \in 1..MaxMembers} :
               /\ p[2] <= Len(items[p[1]].children)
               /\ ~items[p[1]].hidden
               /\ ~items[p[1]].children[p[2]].hidden}

\* C21: whatever the tree holds and whatever text is typed, running
\* _filter_tree_items a second time with the same text shows the same items
\* as running it once.
C21_FilterIdempotent ==
    \A text \in SearchTexts :
       VisibleNodes(filter_tree_items(filter_tree_items(tree.items, text),
                                      text))
          = VisibleNodes(filter_tree_items(tree.items, text))

\* the filter has run on a tree of two groups with one child each, and it
\* shows some items and hides others
C21_Witness ==
    /\ tree.op = "filter"
    /\ tree.search_text # <<>>
    /\ Len(tree.items) = 2
    /\ \A i \in 1..2 : Len(tree.items[i].children) = 1
    /\ VisibleNodes(tree.items) # {}
    /\ \E i \in 1..2 :
          tree.items[i].hidden \/ tree.items[i].children[1].hidden
    /\ tree.items = filter_tree_items(tree.items, tree.search_text)

----------------------------------------------------------------------------
(* Rename, duplicate and sync again *)

\* the name, once validated, gives the id the group at index already has
NamesOwnId(index, name) ==
    /\ 0 <= index /\ index < Len(export_groups)
    /\ validate_group_name(name).ok
    /\ create_set_name(validate_group_name(name).name)
          = export_groups[index + 1].set_name

\* C28 (as claimed): a successful rename of a group to a name whose id is
\* the id the group already has changes nothing: the scene is as it was, so
\* the group keeps its id and no rename was issued in Maya, and the id is at
\* the index of group_order it was at.
C28_RenameToOwnIdIsNoOp ==
    [][(last'.op = "update" /\ last'.ok)
       => \A index \in Indexes, name \in UserNames :
             (NamesOwnId(index, name) /\ update_export_group(index, name))
             => /\ scene' = scene
                /\ object_exists(scene', export_groups[index + 1].set_name)
                /\ \A j \in 1..Len(group_order) :
                      group_order[j] = export_groups[index + 1].set_name
                      => /\ j <= Len(group_order')
                         /\ group_order'[j] = group_order[j]
      ]_vars

\* C24 (as claimed): a duplicate that fails because a Maya command raised,
\* be it the one that creates the new set or the one that fills it, leaves
\* in the scene the sets that were there and no other, so that no later sync
\* finds a new group.
C24_FailedDuplicateLeavesNoSet ==
    [][(last'.op = "duplicate" /\ ~last'.ok /\ last'.raised)
       => /\ SceneNames(scene') = SceneNames(scene)
          /\ SyncOrder(group_order', scene') = SyncOrder(group_order, scene)
      ]_vars

\* C27 (as claimed): a sync during which a Maya query raised leaves
\* group_order and export_groups as they were, and a sync run next on the
\* same scene gives the order it would have given before.
C27_FailedSyncLeavesState ==
    [][(last'.op = "sync" /\ last'.raised)
       => /\ group_order' = group_order
          /\ export_groups' = export_groups
          /\ SyncOrder(group_order', scene') = SyncOrder(group_order, scene)
      ]_vars

----------------------------------------------------------------------------
(* The order of the steps of an export *)

\* the commands of the call log, in the order they were issued
Commands == [k \in 1..Len(export.calls) |-> export.calls[k].cmd]

\* the members of the exported group, as select leaves them selected
MembersSelected == maya_get_set_members(scene, ExportedGroup.set_name)

\* FBXExport was issued only with the group's members selected
ExportedWithMembersSelected ==
    \A k \in 1..Len(export.calls) :
       export.calls[k].cmd = "FBXExport"
       => export.calls[k].selection = MembersSelected

\* C25 (as claimed): an export_group that succeeds has issued, in this
\* order, the select of the group's members, the settings commands, the
\* FBXExport and the select that restores the selection found at entry, and
\* FBXExport is only ever issued with the group's members selected.
C25_SelectThenApply ==
    Exported
    => /\ ExportSucceeded
          => /\ Commands
                   = <<"select", "apply_settings", "FBXExport", "select">>
             /\ selection = export.entry
       /\ ExportedWithMembersSelected

\* C25 amended: an export_group that succeeds has issued, in this order, the
\* settings commands (with the selection still as found at entry), the
\* select of the group's members, the FBXExport and the select that restores
\* the selection found at entry; and FBXExport, succeeding or not, is only
\* ever issued with the group's members selected.
C25_ApplyThenSelect ==
    Exported
    => /\ ExportSucceeded
          => /\ Commands
                   = <<"apply_settings", "select", "FBXExport", "select">>
             /\ export.calls[1].selection = export.entry
             /\ export.calls[2].selection = export.entry
             /\ export.calls[4].selection = MembersSelected
             /\ selection = export.entry
       /\ ExportedWithMembersSelected

\* an export that succeeded although something else than the group's members
\* was selected when it was called
C25_Witness ==
    /\ Exported /\ ExportSucceeded
    /\ export.entry \in Selections \ {<<>>}
    /\ export.calls[3].cmd = "FBXExport"
    /\ export.calls[3].selection = MembersSelected

----------------------------------------------------------------------------
(* The filter and the saved expansion *)

\* C30 (as claimed): a text is typed in the search field, the tree is
\* refreshed with preservation any number of times, the field is cleared and
\* the tree is refreshed with preservation once more, the user expanding or
\* collapsing nothing meanwhile: the groups then expanded are the groups
\* that were expanded when the text was typed.
C30_FilterLeavesExpansion ==
    history.phase = "done" => ExpandedGroups(tree.items) = history.expanded

----------------------------------------------------------------------------
(* A rename and the saved selection and expansion *)

\* the refresh that ends _rename_group, for a group whose item was selected
\* and expanded
RenamedShownGroup ==
    /\ history.phase = "renaming" /\ history'.phase = "renamed"
    /\ history.expanded # {}

\* the item the rebuilt tree has for the renamed set
RenamedItems ==
    {i \in 1..Len(tree'.items) :
        tree'.items[i].set_name = scene'[history.renamed].name}

\* C26 (as claimed): after a selected, expanded group is renamed and the
\* tree refreshed with preservation, the item of the renamed group is
\* neither selected nor expanded.
C26_RenamedNotRestored ==
    [][RenamedShownGroup
       => /\ RenamedItems # {}
          /\ \A i \in RenamedItems :
                ~tree'.items[i].selected /\ ~tree'.items[i].expanded]_vars

\* C26 amended: the item of the renamed group is not selected, and it is
\* expanded only when the search field holds a text that one of the group's
\* members contains.
C26_RenamedNotRestoredUnlessFiltered ==
    [][RenamedShownGroup
       => /\ RenamedItems # {}
          /\ \A i \in RenamedItems :
                /\ ~tree'.items[i].selected
                /\ tree'.items[i].expanded
                      <=> tree'.items[i].set_name
                             \in FilterExpanded(tree'.items,
                                                tree'.search_text)]_vars

\* the group "A", selected and expanded with its member selected too, was
\* renamed "d" with no search text: its item is collapsed and nothing in it
\* is selected, while the other group is still selected
C26_Witness ==
    /\ history.phase = "renamed" /\ history.expanded # {}
    /\ tree.search_text = <<>>
    /\ Len(tree.items) = 2
    /\ \E i \in 1..2 :
          /\ tree.items[i].label = <<"d">>
          /\ tree.items[i].set_name = scene[history.renamed].name
          /\ ~tree.items[i].selected /\ ~tree.items[i].expanded
          /\ tree.items[i].children # <<>>
          /\ ~tree.items[i].children[1].selected
    /\ \E i \in 1..2 : tree.items[i].selected

----------------------------------------------------------------------------
(* The polling timer during the handlers *)

\* the handlers of the dialog-driven mutations
Mutations == MenuHandlers \cup {"add_group", "remove_selected"}

\* a mutation started from the UI is in progress
MidEdit == \E k \in 1..Len(window.handlers) : window.handlers[k] \in Mutations

\* C23: while a dialog-driven mutation is in progress (and while the
\* context menu is open) the polling timer is stopped, in nested scopes
\* too, so that the timer never refreshes the tree mid-edit; and once the
\* outermost scope is left, by a return or by an exception, the timer runs
\* again as it ran before.
C23_TimerPausedDuringEdits ==
    [][/\ window'.handlers # <<>> => ~window'.timer
       /\ window'.handlers = <<>> => window'.timer = NoWindow.timer
       /\ TimerFires => ~MidEdit /\ window.handlers = <<>>]_vars

\* _add_group, called from the context menu, has created its group inside
\* the nested scope, which found the timer stopped
C23_Witness ==
    /\ window.handlers = <<"context_menu", "add_group">>
    /\ window.scopes = <<TRUE, FALSE>>
    /\ ~window.timer
    /\ last.op = "add" /\ last.ok

----------------------------------------------------------------------------
(* Loading and saving the configuration *)

\* a call of load_from_file, from the call to its return
Loads == Ready /\ last'.op = "load"

\* the file is not what the schema asks for: export_groups an array of
\* objects, fbx_settings an object with the five fields
Malformed(file) ==
    \/ ~file.json \/ ~file.dict
    \/ ~file.has_groups \/ ~file.has_settings
    \/ ~file.fbx_settings.dict
    \/ \E field \in SettingsFields : field \notin DOMAIN file.fbx_settings.value
    \/ ~file.export_groups.list
    \/ \E i \in 1..Len(file.export_groups.items) :
          ~file.export_groups.items[i].dict

\* C22: loading a file that is malformed or lacks a required field fails,
\* and a load that fails leaves the settings, group_order, the groups and
\* the sets of the scene as they were.
C22_FailedLoadHasNoEffect ==
    [][Loads /\ config.file.exists
       => /\ Malformed(config.file) => ~last'.ok
          /\ ~last'.ok => /\ config'.fbx_settings = config.fbx_settings
                          /\ group_order' = group_order
                          /\ export_groups' = export_groups
                          /\ scene' = scene]_vars

\* the ids a file lists, in its order
FileIds(file) ==
    [i \in 1..Len(file.export_groups.items) |->
        file.export_groups.items[i].set_name]

\* the file is one save_to_file writes: each group under the name its id
\* gives it
Saved(file) ==
    /\ file.exists /\ ~Malformed(file)
    /\ \A i \in 1..Len(file.export_groups.items) :
          file.export_groups.items[i]
             = GroupEntry(MakeGroup(FileIds(file)[i]).name, FileIds(file)[i])

\* C29: a saved file loaded into a scene without export sets, no Maya
\* command failing, gives the groups of the file, same ids, same order,
\* and the settings of the file.
C29_LoadRestoresSaved ==
    [][Loads /\ Saved(config.file) /\ list_export_sets(scene) = <<>>
             /\ ~last'.raised
       => /\ last'.ok
          /\ group_order' = FileIds(config.file)
          /\ list_export_sets(scene') = FileIds(config.file)
          /\ export_groups' = [i \in 1..Len(group_order') |->
                                  MakeGroup(FileIds(config.file)[i])]
          /\ config'.fbx_settings = config.file.fbx_settings]_vars

====
